---- MODULE Spec2Model ----
(***************************************************************************)
(* Client-side cart / session model of the storefront.                     *)
(*                                                                         *)
(*   SpecCart     CartService (js/cart.js): the local cart, its persisted  *)
(*                copy, the push guard and the pull from the backend.      *)
(*   SpecSession  APIService (API service layer with retry): the guest     *)
(*                session id, the auth token, the login / registration     *)
(*                handlers and the guest-cart merge.                       *)
(*   SpecRequest  APIService.get / post / put / delete: one request through *)
(*                retryRequest, fetchWithTimeout and handleResponse.       *)
(*   SpecSync     CartService against a backend cart: what each push       *)
(*                carries, what the backend holds, the pulls in flight.    *)
(*   SpecCheckout CheckoutService.createOrder (js/checkout.js) and the     *)
(*                checkout page: its submit handler, the order request,    *)
(*                the handoff to payment or to the order's page.           *)
(*   SpecCheckoutData  CheckoutService's session: step, shipping info,     *)
(*                methods, coupon, totals (js/checkout.js, js/cart.js).    *)
(*   SpecCheckoutTotals  the coupon and the totals while the cart changes. *)
(*   SpecAuth     AuthService.login (js/config.js) behind the rateLimiter  *)
(*                of js/security.js, for one identifier.                   *)
(*   SpecRequestFair, SpecPushFair  one request, and the pushes of the     *)
(*                cart, where the scheduled callbacks do run.              *)
(***************************************************************************)
EXTENDS Integers, Sequences, FiniteSets, TLC

\* ------------------------------------------------------------------ bounds
MaxQty == 3        \* largest quantity a call requests; a line grows no further
MaxStock == 2      \* largest stock count a product object carries
MaxIds == 2        \* session identifiers generated in one run
MaxPulls == 1      \* loadFromBackend calls awaiting their answer at once
MaxPending == 2    \* handoff timers of the checkout page armed at once
MaxNow == 4        \* how far the clock of the login page runs, in ticks

\* JavaScript `undefined` for a numeric field (product.stock, item.stock)
Undefined == 0 - 1

Products == {"A", "B"}
NoId == "undefined"                       \* a line without an `id` field

\* stock counts a product object may carry: unknown, or one of the two largest
StockVals == {Undefined, MaxStock - 1, MaxStock}
QtyArgs == (0 - 1)..MaxQty                \* quantities a caller may pass

VARIABLES
    cart,            \* CartService.cart : sequence of cart lines
    lsCart,          \* localStorage['cart']
    authToken,       \* localStorage['authToken'] present?
    syncInProgress,  \* CartService.syncInProgress
    lastOp,          \* the last CartService call and its outcome
    apiToken,        \* APIService.token set?
    sessionId,       \* localStorage['sessionId'], NoSession when absent
    nextId,          \* the next identifier Date.now() + Math.random() yields
    handlers,        \* running handleLogin / handleRegister invocations
    sessOp,          \* the last APIService call and what it sent / returned
    attempt,         \* retryRequest: where the loop is, its index i, lastError
    timers,          \* fetchWithTimeout: the attempts whose setTimeout is armed
    reqLog,          \* the attempts finished so far: answer, error, backoff
    push,            \* syncWithBackend's POST /cart: body sent, attempt index
    serverCart,      \* the item list the backend holds for the user
    pulls,           \* loadFromBackend calls whose GET /cart is unanswered
    stale,           \* why the local cart may differ from the last push sent
    checkoutData,    \* CheckoutService.checkoutData
    available,       \* the backend's stock count of each product
    page,            \* the checkout page: its phase, its cart, its user
    order,           \* the last order submission and what became of it
    ssCheckout,      \* sessionStorage['checkoutData']
    coupon,          \* applyCoupon: whether its request is unanswered, its code
    coOp,            \* the last CheckoutService call and its outcome
    rateLimit,       \* rateLimiter.attempts['rate_limit_' + identifier]
    now,             \* Date.now(), in ticks of half the LOCKOUT_DURATION
    authOp           \* the last AuthService.login call and the failures before it

cartVars == <<cart, lsCart, syncInProgress, lastOp>>

sessionVars == <<apiToken, sessionId, nextId, handlers, sessOp>>

requestVars == <<attempt, timers, reqLog>>

syncVars == <<push, serverCart, pulls, stale>>

checkoutVars == <<checkoutData, available, page, order, ssCheckout, coupon, coOp>>

vars == <<cart, lsCart, authToken, syncInProgress, lastOp,
          apiToken, sessionId, nextId, handlers, sessOp,
          attempt, timers, reqLog,
          push, serverCart, pulls, stale,
          checkoutData, available, page, order, ssCheckout, coupon, coOp,
          rateLimit, now, authOp>>

\* ------------------------------------------------------------ CartService

\* a cart line as addToCart builds it (display fields omitted)
CartItem(p, q, s) == [productId |-> p, id |-> NoId, quantity |-> q, stock |-> s]

\* the carts the backend may answer with: lines unique by product, quantity a
\* positive integer (section 3 of the data model), no stock field
RemoteItem(p, q) == [productId |-> p, id |-> NoId, quantity |-> q, stock |-> Undefined]

RemoteCarts ==
    {<<>>}
    \cup { <<RemoteItem(p, q)>> : p \in Products, q \in 1..MaxQty }
    \cup { <<RemoteItem(pq[1], pq[2]), RemoteItem(pq[3], pq[4])>> :
             pq \in { x \in Products \X (1..MaxQty) \X Products \X (1..MaxQty) : x[1] # x[3] } }

\* findCartItem: index of the first line whose productId or id equals the key,
\* 0 when Array.find returns undefined
findCartItemIn(c, productId) ==
    LET hits == { i \in 1..Len(c) : c[i].productId = productId \/ c[i].id = productId }
    IN  IF hits = {} THEN 0 ELSE CHOOSE i \in hits : \A j \in hits : i <= j

findCartItem(productId) == findCartItemIn(cart, productId)

\* this.cart.splice(index, 1)
Splice(c, index) == [ i \in 1..(Len(c) - 1) |-> IF i < index THEN c[i] ELSE c[i + 1] ]

\* syncWithBackend up to its first await: the request is issued only with a
\* token and no sync in flight, otherwise the call returns at once
SyncStarts == authToken /\ ~syncInProgress

SyncWithBackend == syncInProgress' = (syncInProgress \/ SyncStarts)

\* saveCart
SaveCart == lsCart' = cart'

\* the call just made: its arguments and what it returned / notified.
\* prevAdd is the quantity of the call right before it when that call was an
\* addToCart of the same product object that created the line, else 0.
Op(kind, p, q, s, res) ==
    [kind |-> kind, pid |-> p, quantity |-> q, stock |-> s,
     res |-> res, remote |-> <<>>,
     prevAdd |-> IF kind = "add" /\ lastOp.kind = "addNew" /\ lastOp.pid = p
                    /\ lastOp.stock = s
                 THEN lastOp.quantity ELSE 0]

Rejected(kind, p, q, s, res) ==
    /\ lastOp' = Op(kind, p, q, s, res)
    /\ UNCHANGED <<cart, lsCart, syncInProgress>>

\* variant of UpdateBody: clamps the line to its stock count and still reports
\* the insufficient stock
UpdateBody_Clamp(kind, p, q, s, newQuantity) ==
    LET i == findCartItem(p) IN
    IF i = 0 THEN Rejected(kind, p, q, s, "NotFound")
    ELSE IF cart[i].stock # Undefined /\ cart[i].stock < newQuantity
         THEN /\ cart' = [cart EXCEPT ![i].quantity = cart[i].stock]
              /\ SaveCart
              /\ SyncWithBackend
              /\ lastOp' = Op(kind, p, q, s, "InsufficientStock")
         ELSE /\ cart' = [cart EXCEPT ![i].quantity = newQuantity]
              /\ SaveCart
              /\ SyncWithBackend
              /\ lastOp' = Op(kind, p, q, s, "ok")

\* updateQuantity's body for quantity >= 1
UpdateBody(kind, p, q, s, newQuantity) ==
    LET i == findCartItem(p) IN
    IF i = 0 THEN Rejected(kind, p, q, s, "NotFound")
    ELSE IF cart[i].stock # Undefined /\ cart[i].stock < newQuantity
         THEN Rejected(kind, p, q, s, "InsufficientStock")
         ELSE /\ cart' = [cart EXCEPT ![i].quantity = newQuantity]
              /\ SaveCart
              /\ SyncWithBackend
              /\ lastOp' = Op(kind, p, q, s, "ok")

\* removeFromCart's body
RemoveBody(kind, p, q) ==
    LET index == findCartItem(p) IN
    IF index = 0 THEN Rejected(kind, p, q, Undefined, "NotFound")
    ELSE /\ cart' = Splice(cart, index)
         /\ SaveCart
         /\ SyncWithBackend
         /\ lastOp' = Op(kind, p, q, Undefined, "ok")

\* variant of AddToCart: an existing line takes the new quantity instead of
\* the sum
AddToCart_Overwrite(p, quantity, stock) ==
    IF quantity < 1 THEN Rejected("add", p, quantity, stock, "InvalidQuantity")
    ELSE IF stock # Undefined /\ stock < quantity
    THEN Rejected("add", p, quantity, stock, "InsufficientStock")
    ELSE LET existing == findCartItem(p) IN
         IF existing # 0
         THEN UpdateBody("add", cart[existing].productId, quantity, stock, quantity)
         ELSE /\ cart' = Append(cart, CartItem(p, quantity, stock))
              /\ SaveCart
              /\ SyncWithBackend
              /\ lastOp' = Op("addNew", p, quantity, stock, "ok")

\* variant of AddToCart: a new line is appended without the stock check
AddToCart_NoStockCheck(p, quantity, stock) ==
    IF quantity < 1 THEN Rejected("add", p, quantity, stock, "InvalidQuantity")
    ELSE LET existing == findCartItem(p) IN
         IF existing # 0
         THEN LET newQuantity == cart[existing].quantity + quantity IN
              /\ newQuantity <= MaxQty
              /\ IF stock # Undefined /\ stock < newQuantity
                 THEN Rejected("add", p, quantity, stock, "InsufficientStock")
                 ELSE UpdateBody("add", cart[existing].productId, quantity, stock, newQuantity)
         ELSE /\ cart' = Append(cart, CartItem(p, quantity, stock))
              /\ SaveCart
              /\ SyncWithBackend
              /\ lastOp' = Op("addNew", p, quantity, stock, "ok")

AddToCart(p, quantity, stock) ==
    IF quantity < 1 THEN Rejected("add", p, quantity, stock, "InvalidQuantity")
    ELSE IF stock # Undefined /\ stock < quantity
    THEN Rejected("add", p, quantity, stock, "InsufficientStock")
    ELSE LET existing == findCartItem(p) IN
         IF existing # 0
         THEN LET newQuantity == cart[existing].quantity + quantity IN
              /\ newQuantity <= MaxQty
              /\ IF stock # Undefined /\ stock < newQuantity
                 THEN Rejected("add", p, quantity, stock, "InsufficientStock")
                 ELSE UpdateBody("add", cart[existing].productId, quantity, stock, newQuantity)
         ELSE /\ cart' = Append(cart, CartItem(p, quantity, stock))
              /\ SaveCart
              /\ SyncWithBackend
              /\ lastOp' = Op("addNew", p, quantity, stock, "ok")

\* variant of UpdateQuantity: no removal for quantity < 1
UpdateQuantity_NoFloor(p, quantity) ==
    UpdateBody("update", p, quantity, Undefined, quantity)

UpdateQuantity(p, quantity) ==
    IF quantity < 1 THEN RemoveBody("update", p, quantity)
    ELSE UpdateBody("update", p, quantity, Undefined, quantity)

RemoveFromCart(p) == RemoveBody("remove", p, 0)

ClearCart ==
    /\ cart' = <<>>
    /\ SaveCart
    /\ SyncWithBackend
    /\ lastOp' = Op("clear", "A", 0, Undefined, "ok")

\* the push's request completes (success or failure): finally-block
SyncComplete ==
    /\ syncInProgress
    /\ syncInProgress' = FALSE
    /\ UNCHANGED <<cart, lsCart, lastOp>>

\* variant of MergeBackend: every backend line is pushed
MergeBackend_AlwaysPush(c, backendCart) == c \o backendCart

\* variant of MergeBackend: a matching local line keeps its own quantity
RECURSIVE MergeBackend_KeepLocal(_, _)
MergeBackend_KeepLocal(c, backendCart) ==
    IF backendCart = <<>> THEN c
    ELSE MergeBackend_KeepLocal(
             IF findCartItemIn(c, Head(backendCart).productId) # 0
             THEN c
             ELSE Append(c, Head(backendCart)),
             Tail(backendCart))

\* variant of MergeBackend: a matching local line adds the backend quantity
RECURSIVE MergeBackend_Sum(_, _)
MergeBackend_Sum(c, backendCart) ==
    IF backendCart = <<>> THEN c
    ELSE LET backendItem == Head(backendCart)
             localItem == findCartItemIn(c, backendItem.productId)
         IN  MergeBackend_Sum(
                 IF localItem # 0
                 THEN [c EXCEPT ![localItem].quantity = @ + backendItem.quantity]
                 ELSE Append(c, backendItem),
                 Tail(backendCart))

\* backendCart.forEach(...) of loadFromBackend
RECURSIVE MergeBackend(_, _)
MergeBackend(c, backendCart) ==
    IF backendCart = <<>> THEN c
    ELSE LET backendItem == Head(backendCart)
             localItem == findCartItemIn(c, backendItem.productId)
         IN  MergeBackend(
                 IF localItem # 0
                 THEN [c EXCEPT ![localItem].quantity = backendItem.quantity]
                 ELSE Append(c, backendItem),
                 Tail(backendCart))

\* loadFromBackend, response.success && response.cart
LoadFromBackend(backendCart) ==
    /\ cart' = MergeBackend(cart, backendCart)
    /\ SaveCart
    /\ lastOp' = [Op("pull", "A", 0, Undefined, "ok") EXCEPT !.remote = backendCart]
    /\ UNCHANGED syncInProgress

\* loadFromBackend, request failed or response without a cart
LoadFromBackendFailed ==
    /\ lastOp' = Op("pull", "A", 0, Undefined, "failed")
    /\ UNCHANGED <<cart, lsCart, syncInProgress>>

\* ------------------------------------------------------------- APIService

NoSession == 0
RetryAttempts == 3
Handlers == {"h1", "h2"}

\* how one request attempt ends, as retryRequest tells the cases apart:
\*   ok            2xx
\*   unauthorized  401: handleResponse clears the stored credentials
\*   clientError   an error whose message retryRequest recognises as 4xx
\*   retryable     every other failure (5xx, timeout, network error)
Outcomes == {"ok", "unauthorized", "clientError", "retryable"}

\* retryRequest: the error is rethrown at once
NoRetry(outcome) == outcome \in {"unauthorized", "clientError"}

\* variant of RetriesAfter: the loop gives up one attempt early
RetriesAfter_OneFewer(i, outcome) == outcome # "ok" /\ ~NoRetry(outcome) /\ i < RetryAttempts - 2

\* variant of RetriesAfter: the loop bound is off by one
RetriesAfter_OffByOne(i, outcome) == outcome # "ok" /\ ~NoRetry(outcome) /\ i <= RetryAttempts - 1

\* retryRequest: after a failure in iteration i the loop runs once more
RetriesAfter(i, outcome) == outcome # "ok" /\ ~NoRetry(outcome) /\ i < RetryAttempts - 1

\* variant of GetOrCreateSessionId: a new identifier on every call
GetOrCreateSessionId_AlwaysNew == nextId

\* getOrCreateSessionId: the value it returns
GetOrCreateSessionId == IF sessionId # NoSession THEN sessionId ELSE nextId

\* getOrCreateSessionId: its effect on storage
StoreSessionId ==
    /\ sessionId = NoSession => nextId <= MaxIds
    /\ sessionId' = GetOrCreateSessionId
    /\ nextId' = IF sessionId # NoSession THEN nextId ELSE nextId + 1

Idle == [pc |-> "idle", i |-> 0, merges |-> 0, fails |-> 0]

Merged == \E h \in Handlers : handlers[h].pc = "merged"

SessOp(kind, sid, auth) ==
    [kind |-> kind, sid |-> sid, auth |-> auth, afterMerge |-> Merged]

\* handleLogin / handleRegister up to `await api.login(...)` / `api.register(...)`
SubmitLogin(h) ==
    /\ handlers[h].pc \in {"idle", "failed"}
    /\ handlers' = [handlers EXCEPT ![h] = [Idle EXCEPT !.pc = "loginWait"]]
    /\ sessOp' = SessOp("submit", NoSession, FALSE)
    /\ UNCHANGED <<authToken, apiToken, sessionId, nextId>>

\* mergeCart up to `await this.post(.../merge)`, called with token state tok
MergeCartStart(h, tok) ==
    IF sessionId # NoSession /\ tok
    THEN handlers' = [handlers EXCEPT ![h] = [pc |-> "mergeWait", i |-> 0, merges |-> 1, fails |-> 0]]
    ELSE handlers' = [handlers EXCEPT ![h].pc = "done"]

\* the login / register request's attempt is answered
LoginResponse(h, outcome, withToken) ==
    /\ handlers[h].pc = "loginWait"
    /\ sessOp' = SessOp("loginResponse", NoSession, FALSE)
    /\ UNCHANGED <<sessionId, nextId>>
    /\ IF outcome = "ok"
       THEN /\ apiToken' = (apiToken \/ withToken)
            /\ authToken' = (authToken \/ withToken)
            /\ MergeCartStart(h, apiToken')
       ELSE /\ authToken' = (authToken /\ outcome # "unauthorized")
            /\ UNCHANGED apiToken
            /\ handlers' = [handlers EXCEPT ![h].pc =
                   IF RetriesAfter(handlers[h].i, outcome) THEN "loginBackoff" ELSE "failed"]

\* retryRequest's next iteration after the backoff delay
Resend(h) ==
    /\ handlers[h].pc \in {"loginBackoff", "mergeBackoff"}
    /\ handlers' = [handlers EXCEPT ![h] =
           IF handlers[h].pc = "loginBackoff"
           THEN [@ EXCEPT !.pc = "loginWait", !.i = @ + 1]
           ELSE [@ EXCEPT !.pc = "mergeWait", !.i = @ + 1, !.merges = @ + 1]]
    /\ sessOp' = SessOp("resend", NoSession, apiToken)
    /\ UNCHANGED <<authToken, apiToken, sessionId, nextId>>

\* variant of MergeResponse: mergeCart rethrows the error of a failed merge,
\* which handleLogin's catch block reports as a failed login
MergeResponse_Rethrows(h, outcome) ==
    /\ handlers[h].pc = "mergeWait"
    /\ UNCHANGED <<apiToken, nextId>>
    /\ IF outcome = "ok"
       THEN /\ sessionId' = NoSession
            /\ handlers' = [handlers EXCEPT ![h].pc = "merged"]
            /\ sessOp' = SessOp("mergeOk", NoSession, apiToken)
            /\ UNCHANGED authToken
       ELSE /\ authToken' = (authToken /\ outcome # "unauthorized")
            /\ handlers' = [handlers EXCEPT
                   ![h].pc = IF RetriesAfter(handlers[h].i, outcome)
                             THEN "mergeBackoff" ELSE "failed",
                   ![h].fails = IF NoRetry(outcome) THEN @ ELSE @ + 1]
            /\ sessOp' = SessOp("mergeFailed", NoSession, apiToken)
            /\ UNCHANGED sessionId

\* the merge request's attempt is answered
MergeResponse(h, outcome) ==
    /\ handlers[h].pc = "mergeWait"
    /\ UNCHANGED <<apiToken, nextId>>
    /\ IF outcome = "ok"
       THEN /\ sessionId' = NoSession
            /\ handlers' = [handlers EXCEPT ![h].pc = "merged"]
            /\ sessOp' = SessOp("mergeOk", NoSession, apiToken)
            /\ UNCHANGED authToken
       ELSE /\ authToken' = (authToken /\ outcome # "unauthorized")
            /\ handlers' = [handlers EXCEPT
                   ![h].pc = IF RetriesAfter(handlers[h].i, outcome)
                             THEN "mergeBackoff" ELSE "done",
                   ![h].fails = IF NoRetry(outcome) THEN @ ELSE @ + 1]
            /\ sessOp' = SessOp("mergeFailed", NoSession, apiToken)
            /\ UNCHANGED sessionId

\* APIService.getCart up to the request: GET /cart?sessionId=..., auth = !!token
GetCart ==
    /\ StoreSessionId
    /\ sessOp' = SessOp("getCart", GetOrCreateSessionId, apiToken)
    /\ UNCHANGED <<authToken, apiToken, handlers>>

\* APIService.addToCart up to the request: POST /cart/items with the sessionId
ApiAddToCart ==
    /\ StoreSessionId
    /\ sessOp' = SessOp("addToCart", GetOrCreateSessionId, apiToken)
    /\ UNCHANGED <<authToken, apiToken, handlers>>

Logout_KeepsSessionId ==
    /\ apiToken' = FALSE
    /\ authToken' = FALSE
    /\ sessionId' = sessionId
    /\ handlers' = [h \in Handlers |-> Idle]
    /\ sessOp' = SessOp("logout", NoSession, FALSE)
    /\ UNCHANGED nextId

\* APIService.logout; the navigation to the login page ends the running handlers
Logout ==
    /\ apiToken' = FALSE
    /\ authToken' = FALSE
    /\ sessionId' = NoSession
    /\ handlers' = [h \in Handlers |-> Idle]
    /\ sessOp' = SessOp("logout", NoSession, FALSE)
    /\ UNCHANGED nextId

\* ------------------------------------------------- APIService: one request

RetryDelay == 1000                        \* RETRY_DELAY of the global instance

\* HTTP statuses a response may carry; 409 stands for the `default` branch
Statuses == {200, 400, 401, 403, 404, 409, 500, 503}

\* what response.json() finds: no JSON at all, an object without `message`,
\* a message of the backend's own wording, or one that happens to contain the
\* words "not found" (such as "Product not found")
Bodies == {"notJson", "noMessage", "message", "messageNotFound"}

NoTimer == 0 - 1

NoResponse == 0                           \* an attempt that ended without a response

\* the message text of a backend-worded error
BackendText(body) == IF body = "message" THEN "BackendMessage" ELSE "BackendNotFound"

\* handleResponse: "ok" when it returns, else the message of the Error thrown
HandleResponse(status, body) ==
    IF body = "notJson"
    THEN IF status = 200 THEN "ok" ELSE "ResponseError"
    ELSE CASE status = 200 -> "ok"
           [] status = 400 -> IF body = "noMessage" THEN "InvalidRequest" ELSE BackendText(body)
           [] status = 401 -> "SessionExpired"
           [] status = 403 -> "AccessDenied"
           [] status = 404 -> IF body = "noMessage" THEN "NotFound" ELSE BackendText(body)
           [] status = 500 -> "ServerError"
           [] status = 503 -> "Unavailable"
           [] OTHER -> IF body = "noMessage" THEN "SomethingWrong" ELSE BackendText(body)

\* retryRequest: error.message.includes('Invalid request' | 'Session expired'
\* | 'Access denied' | 'not found')
IncludesClientPhrase(err) ==
    err \in {"InvalidRequest", "SessionExpired", "AccessDenied", "NotFound", "BackendNotFound"}

\* the outcome class retryRequest acts on
OutcomeOf(err) ==
    IF err = "ok" THEN "ok"
    ELSE IF err = "SessionExpired" THEN "unauthorized"
    ELSE IF IncludesClientPhrase(err) THEN "clientError"
    ELSE "retryable"

\* variant of Backoff: the same delay before every retry
Backoff_Constant(i) == RetryDelay

\* retryRequest: retryDelay * Math.pow(2, i)
Backoff(i) == RetryDelay * 2^i

\* variant of ClearTimeout: the timer is left armed
ClearTimeout_Forgotten(k) == timers

\* fetchWithTimeout: clearTimeout(timeoutId) of attempt k
ClearTimeout(k) == timers \ {k}

\* one finished attempt: the response's status and body (NoResponse with
\* "timeout" or "network"), the error thrown, the timer that aborted it and
\* the backoff delay retryRequest waited after it (0: none)
LogEntry(status, body, err, by, delay) ==
    [status |-> status, body |-> body, error |-> err, by |-> by, delay |-> delay]

\* retryRequest's catch block for the attempt in flight, which ended with err
Caught(status, body, err, by) ==
    LET again == RetriesAfter(attempt.i, OutcomeOf(err))
    IN  /\ attempt' = [attempt EXCEPT !.pc = IF again THEN "backoff" ELSE "thrown",
                                      !.err = err]
        /\ reqLog' = Append(reqLog, LogEntry(status, body, err, by,
                                             IF again THEN Backoff(attempt.i) ELSE 0))

\* api.get / post / put / delete: retryRequest starts its first attempt, and
\* fetchWithTimeout arms that attempt's timer
StartRequest ==
    /\ attempt.pc = "idle"
    /\ attempt' = [attempt EXCEPT !.pc = "inflight"]
    /\ timers' = timers \cup {attempt.i}
    /\ UNCHANGED <<reqLog, authToken>>

\* fetch resolves with a response: the timer is cleared, handleResponse reads it
Respond(status, body) ==
    /\ attempt.pc = "inflight"
    /\ timers' = ClearTimeout(attempt.i)
    /\ authToken' = (authToken /\ ~(status = 401 /\ body # "notJson"))
    /\ IF HandleResponse(status, body) = "ok"
       THEN /\ attempt' = [attempt EXCEPT !.pc = "returned", !.err = "ok"]
            /\ reqLog' = Append(reqLog, LogEntry(status, body, "ok", NoTimer, 0))
       ELSE Caught(status, body, HandleResponse(status, body), NoTimer)

\* fetch rejects (no connection): the timer is cleared, the error is rethrown
NetworkError ==
    /\ attempt.pc = "inflight"
    /\ timers' = ClearTimeout(attempt.i)
    /\ Caught(NoResponse, "network", "Network", NoTimer)
    /\ UNCHANGED authToken

\* the setTimeout callback of attempt k runs: controller.abort() on the
\* AbortController that attempt created; a fetch still pending on it rejects
\* with AbortError, which fetchWithTimeout rethrows as 'Request timeout'
TimerFires(k) ==
    /\ k \in timers
    /\ timers' = timers \ {k}
    /\ IF attempt.pc = "inflight" /\ attempt.i = k
       THEN Caught(NoResponse, "timeout", "Timeout", k)
       ELSE UNCHANGED <<attempt, reqLog>>
    /\ UNCHANGED authToken

\* the basic service's get / post / put / delete: one fetch, no timer, no retry
StartBasicRequest ==
    /\ attempt.pc = "idle"
    /\ attempt' = [attempt EXCEPT !.pc = "basicInflight"]
    /\ UNCHANGED <<timers, reqLog, authToken>>

\* the basic service's handleResponse: a 401 removes the stored credentials,
\* reloads the page and throws; reqLog is the retrying service's and stays
BasicRespond(status, body) ==
    /\ attempt.pc = "basicInflight"
    /\ authToken' = (authToken /\ ~(status = 401 /\ body # "notJson"))
    /\ attempt' = [attempt EXCEPT
           !.pc = IF body = "notJson" THEN "thrown"
                  ELSE IF HandleResponse(status, body) = "ok" THEN "returned"
                  ELSE IF status = 401 /\ body # "notJson" THEN "reloaded"
                  ELSE "thrown",
           !.err = IF body = "notJson" THEN "ResponseError" ELSE HandleResponse(status, body)]
    /\ UNCHANGED <<timers, reqLog>>

\* APIService.activeRequests: the controllers registered under a request key.
\* The constructor creates the map empty and no method ever adds to it.
activeRequests == {}

\* the abort of the controllers in `found`, while the request is outstanding;
\* a fetch pending on an aborted controller rejects with AbortError, which
\* fetchWithTimeout rethrows as 'Request timeout'.  attempt.cancelled records
\* which cancel call was last made for this request.
Abort(found, call) ==
    /\ attempt.pc \in {"inflight", "backoff"}
    /\ IF found # {} /\ attempt.pc = "inflight"
       THEN LET again == RetriesAfter(attempt.i, OutcomeOf("Timeout"))
            IN  /\ attempt' = [attempt EXCEPT !.pc = IF again THEN "backoff" ELSE "thrown",
                                              !.err = "Timeout", !.cancelled = call]
                /\ reqLog' = Append(reqLog, LogEntry(NoResponse, "aborted", "Timeout", NoTimer,
                                                     IF again THEN Backoff(attempt.i) ELSE 0))
                /\ timers' = ClearTimeout(attempt.i)
       ELSE /\ attempt' = [attempt EXCEPT !.cancelled = call]
            /\ UNCHANGED <<timers, reqLog>>
    /\ UNCHANGED authToken

\* cancelRequest(requestKey): aborts the controller found under the key
CancelRequest(requestKey) == Abort(activeRequests \cap {requestKey}, "byKey")

\* cancelAllRequests: aborts every registered controller
CancelAllRequests == Abort(activeRequests, "all")

\* the backoff delay has passed: the loop's next iteration calls requestFn
BackoffElapsed ==
    /\ attempt.pc = "backoff"
    /\ attempt' = [attempt EXCEPT !.pc = "inflight", !.i = @ + 1]
    /\ timers' = timers \cup {attempt.i + 1}
    /\ UNCHANGED <<reqLog, authToken>>

\* ------------------------------------------- CartService against a backend

\* variant of PostCart: the request is sent before the mutation is applied
PostCart_BeforeMutation ==
    LET starts == ~syncInProgress /\ syncInProgress'
    IN  /\ push' = IF starts
                   THEN [body |-> cart, live |-> TRUE, i |-> 0, issued |-> TRUE, open |-> TRUE]
                   ELSE [push EXCEPT !.live = @ /\ lastOp'.kind # "clear"]
        /\ stale' = IF starts THEN {}
                    ELSE IF cart' # cart THEN stale \cup {"dropped"} ELSE stale
        /\ UNCHANGED <<serverCart, pulls>>

\* the request syncWithBackend sends, after a CartService call that changed
\* the cart.  A call that finds no sync in flight posts { items: this.cart },
\* serialised when the attempt is sent; a call that finds one sends nothing.
\* `live` tells whether the posted object still refers to this.cart: every
\* mutation works on the array in place but clearCart, which assigns a new one.
\* `open` tells whether the awaited post has not settled yet.
PostCart ==
    LET starts == ~syncInProgress /\ syncInProgress'
    IN  /\ push' = IF starts
                   THEN [body |-> cart', live |-> TRUE, i |-> 0, issued |-> TRUE, open |-> TRUE]
                   ELSE [push EXCEPT !.live = @ /\ lastOp'.kind # "clear"]
        /\ stale' = IF starts THEN {}
                    ELSE IF cart' # cart THEN stale \cup {"dropped"} ELSE stale
        /\ UNCHANGED <<serverCart, pulls>>

\* the push is answered 2xx: the backend holds the posted items
PushSucceeds ==
    /\ push.open
    /\ SyncComplete
    /\ serverCart' = push.body
    /\ push' = [push EXCEPT !.open = FALSE]
    /\ UNCHANGED <<authToken, pulls, stale>>

\* an attempt of the push failed with a retryable error and the backoff has
\* passed: post's requestFn runs again and serialises the posted object anew
PushRetry ==
    /\ syncInProgress /\ push.open
    /\ RetriesAfter(push.i, "retryable")
    /\ push' = [push EXCEPT !.i = @ + 1, !.body = IF push.live THEN cart ELSE @]
    /\ stale' = IF push.live THEN {} ELSE stale
    /\ UNCHANGED <<cart, lsCart, syncInProgress, lastOp, authToken, serverCart, pulls>>

\* variant of PushFails: the guard is reset on the success path only
PushFails_KeepsGuard(outcome) ==
    /\ outcome # "ok" /\ ~RetriesAfter(push.i, outcome)
    /\ push.open
    /\ UNCHANGED <<cart, lsCart, lastOp, syncInProgress>>
    /\ authToken' = (authToken /\ outcome # "unauthorized")
    /\ stale' = stale \cup {"failed"}
    /\ push' = [push EXCEPT !.open = FALSE]
    /\ UNCHANGED <<serverCart, pulls>>

\* the push fails for good: syncWithBackend logs the error and returns
PushFails(outcome) ==
    /\ outcome # "ok" /\ ~RetriesAfter(push.i, outcome)
    /\ push.open
    /\ SyncComplete
    /\ authToken' = (authToken /\ outcome # "unauthorized")
    /\ stale' = stale \cup {"failed"}
    /\ push' = [push EXCEPT !.open = FALSE]
    /\ UNCHANGED <<serverCart, pulls>>

\* loadFromBackend up to `await this.api.get(.../cart)`
PullStart ==
    /\ pulls < MaxPulls
    /\ pulls' = pulls + 1
    /\ UNCHANGED <<cart, lsCart, syncInProgress, lastOp, authToken, push, serverCart, stale>>

\* the GET /cart of a pull is answered with the backend's cart
PullAnswer ==
    /\ pulls > 0
    /\ LoadFromBackend(serverCart)
    /\ pulls' = pulls - 1
    /\ stale' = IF cart' # cart THEN stale \cup {"pulled"} ELSE stale
    /\ UNCHANGED <<authToken, push, serverCart>>

\* the GET /cart of a pull fails
PullFails ==
    /\ pulls > 0
    /\ LoadFromBackendFailed
    /\ pulls' = pulls - 1
    /\ UNCHANGED <<authToken, push, serverCart, stale>>

\* -------------------------------------------------------- CheckoutService

\* the validators of js/security.js on the strings a shipping form may carry
\* ("J x51" stands for a name of 51 letters)

\* validateName(name, 'Full name'): "" when valid, else the message
ValidateName(name) ==
    IF name = "" THEN "Full name is required"
    ELSE IF name = "J" THEN "Full name must be at least 2 characters"
    ELSE IF name = "J x51" THEN "Full name must be less than 50 characters"
    ELSE IF name = "J0hn" THEN "Name pattern"
    ELSE ""

ValidateEmail(email) ==
    IF email = "" THEN "Email is required"
    ELSE IF email = "jane.example" THEN "Please enter a valid email address"
    ELSE ""

\* validatePhone: spaces and dashes removed, then /^(\+27|0)[6-8][0-9]{8}$/
ValidatePhone(phone) ==
    IF phone = "" THEN "Phone number is required"
    ELSE IF phone = "12345" THEN "Please enter a valid South African phone number"
    ELSE ""

\* validatePostalCode: trimmed, then /^\d{4}$/
ValidatePostalCode(code) ==
    IF code = "" THEN "Postal code is required"
    ELSE IF code = "80O1" THEN "Please enter a valid 4-digit postal code"
    ELSE ""

\* validateAddress: the errors it returns
ValidateAddress(address) ==
    (IF address.street \in {"", "1 Rd"}
     THEN {"Street address must be at least 5 characters"} ELSE {})
    \cup (IF address.city = "" THEN {"City is required"} ELSE {})
    \cup (IF address.province = "" THEN {"Province is required"} ELSE {})
    \cup ({ValidatePostalCode(address.postalCode)} \ {""})

\* validateShippingInfo: the errors it returns
ValidateShippingInfo(shippingInfo) ==
    (({ValidateName(shippingInfo.fullName)} \cup {ValidateEmail(shippingInfo.email)}
      \cup {ValidatePhone(shippingInfo.phone)}) \ {""})
    \cup ValidateAddress(shippingInfo)

\* the shipping info of getDefaultCheckoutData: every field empty
NoShippingInfo ==
    [fullName |-> "", email |-> "", phone |-> "", street |-> "",
     city |-> "", province |-> "", postalCode |-> ""]

\* a form every validator accepts
GoodShippingInfo ==
    [fullName |-> "Jane Doe", email |-> "jane@example.com", phone |-> "071 555 1234",
     street |-> "12 Main Road", city |-> "Cape Town", province |-> "Western Cape",
     postalCode |-> "8001"]

\* the forms a caller passes: the good one, and the good one with one field
\* missing or replaced by a string its validator refuses
ShippingInfos ==
    {GoodShippingInfo}
    \cup { [GoodShippingInfo EXCEPT !.fullName = v] : v \in {"", "J", "J x51", "J0hn"} }
    \cup { [GoodShippingInfo EXCEPT !.email = v] : v \in {"", "jane.example"} }
    \cup { [GoodShippingInfo EXCEPT !.phone = v] : v \in {"", "12345"} }
    \cup { [GoodShippingInfo EXCEPT !.street = v] : v \in {"", "1 Rd"} }
    \cup { [GoodShippingInfo EXCEPT !.city = v] : v \in {""} }
    \cup { [GoodShippingInfo EXCEPT !.province = v] : v \in {""} }
    \cup { [GoodShippingInfo EXCEPT !.postalCode = v] : v \in {"", "80O1"} }

\* getDefaultCheckoutData (orderNotes, which no operation below reads, left out)
DefaultCheckoutData ==
    [step |-> 1, shippingInfo |-> NoShippingInfo, shippingMethod |-> "standard",
     paymentMethod |-> "", couponCode |-> "", discount |-> 0, agreeToTerms |-> FALSE]

ShippingMethods == {"standard", "express", "pickup"}
PaymentMethods == {"payfast", "credit-card", "eft", "bank-transfer"}

\* the methods a caller passes: a valid one and one the service refuses
ShippingArgs == {"express", "drone"}
PaymentArgs == {"payfast", "cash"}

\* the steps setCurrentStep is called with
Steps == {1, 2}

NoProduct == "-"

\* one validation error; pid names the cart line it is about
Issue(kind, p) == [kind |-> kind, pid |-> p]

\* CartService.validateCart: the errors it returns
ValidateCart(c) ==
    IF Len(c) = 0 THEN { Issue("EmptyCart", NoProduct) }
    ELSE { Issue("InvalidQuantity", c[i].productId) : i \in { k \in 1..Len(c) : c[k].quantity < 1 } }
         \cup { Issue("OnlyAvailable", c[i].productId) :
                  i \in { k \in 1..Len(c) : c[k].stock # Undefined /\ c[k].stock < c[k].quantity } }

ValidateCheckout_NoTerms ==
    ValidateCart(cart)
    \cup (IF ValidateShippingInfo(checkoutData.shippingInfo) = {} THEN {}
          ELSE { Issue("ShippingInfo", NoProduct) })
    \cup (IF checkoutData.shippingMethod = "" THEN { Issue("ShippingMethod", NoProduct) } ELSE {})
    \cup (IF checkoutData.paymentMethod = "" THEN { Issue("PaymentMethod", NoProduct) } ELSE {})

\* validateCheckout: the errors it returns
ValidateCheckout ==
    ValidateCart(cart)
    \cup (IF ValidateShippingInfo(checkoutData.shippingInfo) = {} THEN {}
          ELSE { Issue("ShippingInfo", NoProduct) })
    \cup (IF checkoutData.shippingMethod = "" THEN { Issue("ShippingMethod", NoProduct) } ELSE {})
    \cup (IF checkoutData.paymentMethod = "" THEN { Issue("PaymentMethod", NoProduct) } ELSE {})
    \cup (IF checkoutData.agreeToTerms THEN {} ELSE { Issue("Terms", NoProduct) })

\* APP_CONFIG: VAT_RATE 0.15 as a percentage, SHIPPING.*
VatRatePercent == 15
FreeThreshold == 1500
StandardCost == 150
ExpressCost == 250

\* item.salePrice || item.price of the line of each product
Price(p) == IF p = "A" THEN 1000 ELSE 600

\* CartService.getCartSubtotal: price * (quantity || 1), summed over the lines
RECURSIVE GetCartSubtotal(_)
GetCartSubtotal(c) ==
    IF Len(c) = 0 THEN 0
    ELSE Price(Head(c).productId) * (IF Head(c).quantity = 0 THEN 1 ELSE Head(c).quantity)
         + GetCartSubtotal(Tail(c))

\* amount * VAT_RATE; every amount of the model is a multiple of 100
Vat(amount) == (amount * VatRatePercent) \div 100

\* CheckoutService.calculateShipping
CalculateShipping(method) ==
    IF GetCartSubtotal(cart) >= FreeThreshold THEN 0
    ELSE CASE method = "standard" -> StandardCost
           [] method = "express" -> ExpressCost
           [] method = "pickup" -> 0
           [] OTHER -> StandardCost

\* what calculateTotals returns (currency left out)
Totals(subtotal, discount, vat, shipping) ==
    [subtotal |-> subtotal, discount |-> discount, vat |-> vat,
     shipping |-> shipping, total |-> (subtotal - discount) + vat + shipping]

NoTotals == Totals(0, 0, 0, 0)

\* CheckoutService.calculateTotals
CheckoutTotals ==
    Totals(GetCartSubtotal(cart), checkoutData.discount,
           Vat(GetCartSubtotal(cart) - checkoutData.discount),
           CalculateShipping(checkoutData.shippingMethod))

\* CartService.calculateTotals: no discount, the standard rate below the threshold
CartTotals ==
    Totals(GetCartSubtotal(cart), 0, Vat(GetCartSubtotal(cart)),
           IF GetCartSubtotal(cart) < FreeThreshold THEN StandardCost ELSE 0)

\* an order submission: who made it, the cart it was made for (known: that
\* cart had been read when the submission was made), the errors returned
NoOrder ==
    [phase |-> "none", by |-> "none", items |-> <<>>, known |-> TRUE, errors |-> {},
     guestEmail |-> ""]

\* no stand-alone checkout page: no cart read, no user, no handoff armed or made
NoPage ==
    [phase |-> "absent", cart |-> <<>>, user |-> FALSE,
     pending |-> <<>>, done |-> <<>>, redirectFirst |-> FALSE]

\* a page that runs CheckoutService, and not the stand-alone checkout page
ServicePage == page.phase = "absent"

KeepCartState == UNCHANGED <<cart, lsCart, syncInProgress, lastOp>>

\* the last CheckoutService call: its name, whether it returned or threw, the
\* messages of the Error thrown, the totals returned
CoOp(kind, res, errors, totals) ==
    [kind |-> kind, res |-> res, errors |-> errors, totals |-> totals]

Returned(kind) == CoOp(kind, "ok", {}, NoTotals)

Thrown(kind, errors) == CoOp(kind, "thrown", errors, NoTotals)

NoStored == [present |-> FALSE, data |-> DefaultCheckoutData]

\* saveCheckoutData: sessionStorage['checkoutData'] = JSON of the data
SaveCheckoutData(data) == [present |-> TRUE, data |-> data]

\* a CheckoutService method that assigns checkoutData and saves it
Store(data, kind) ==
    /\ checkoutData' = data
    /\ ssCheckout' = SaveCheckoutData(data)
    /\ coOp' = Returned(kind)

\* a CheckoutService method that throws before it assigns anything
Refuse(kind, errors) ==
    /\ coOp' = Thrown(kind, errors)
    /\ UNCHANGED <<checkoutData, ssCheckout>>

SetCurrentStep(step) ==
    /\ ServicePage
    /\ Store([checkoutData EXCEPT !.step = step], "setCurrentStep")
    /\ KeepCartState /\ UNCHANGED <<available, page, order, coupon>>

SaveShippingInfo_StoreFirst(shippingInfo) ==
    /\ ServicePage
    /\ IF ValidateShippingInfo(shippingInfo) = {}
       THEN Store([checkoutData EXCEPT !.shippingInfo = shippingInfo], "saveShippingInfo")
       ELSE /\ checkoutData' = [checkoutData EXCEPT !.shippingInfo = shippingInfo]
            /\ coOp' = Thrown("saveShippingInfo", ValidateShippingInfo(shippingInfo))
            /\ UNCHANGED ssCheckout
    /\ KeepCartState /\ UNCHANGED <<available, page, order, coupon>>

\* saveShippingInfo: stored when validateShippingInfo accepts it, else thrown
SaveShippingInfo(shippingInfo) ==
    /\ ServicePage
    /\ IF ValidateShippingInfo(shippingInfo) = {}
       THEN Store([checkoutData EXCEPT !.shippingInfo = shippingInfo], "saveShippingInfo")
       ELSE Refuse("saveShippingInfo", ValidateShippingInfo(shippingInfo))
    /\ KeepCartState /\ UNCHANGED <<available, page, order, coupon>>

SaveShippingMethod_Unchecked(method) ==
    /\ ServicePage
    /\ Store([checkoutData EXCEPT !.shippingMethod = method], "saveShippingMethod")
    /\ KeepCartState /\ UNCHANGED <<available, page, order, coupon>>

SaveShippingMethod(method) ==
    /\ ServicePage
    /\ IF method \in ShippingMethods
       THEN Store([checkoutData EXCEPT !.shippingMethod = method], "saveShippingMethod")
       ELSE Refuse("saveShippingMethod", {"Invalid shipping method"})
    /\ KeepCartState /\ UNCHANGED <<available, page, order, coupon>>

SavePaymentMethod(method) ==
    /\ ServicePage
    /\ IF method \in PaymentMethods
       THEN Store([checkoutData EXCEPT !.paymentMethod = method], "savePaymentMethod")
       ELSE Refuse("savePaymentMethod", {"Invalid payment method"})
    /\ KeepCartState /\ UNCHANGED <<available, page, order, coupon>>

SetTermsAgreement(agree) ==
    /\ ServicePage
    /\ Store([checkoutData EXCEPT !.agreeToTerms = agree], "setTermsAgreement")
    /\ KeepCartState /\ UNCHANGED <<available, page, order, coupon>>

\* the coupon codes a caller passes and the discounts the backend grants
CouponCodes == {"SAVE", "GONE"}
Discounts == {100, 200}

\* what POST applyCoupon may come back with: the HTTP status, the body's
\* message, and for a 200 the body's success flag and discount
CouponAnswers ==
    [status : {200}, body : {"message", "noMessage"}, success : {TRUE}, discount : Discounts]
    \cup [status : {200, 400, 500}, body : {"message", "noMessage"}, success : {FALSE}, discount : {0}]

\* CartService.applyCoupon: the error of the result it returns, "" on success
CartApplyCoupon(answer) ==
    IF HandleResponse(answer.status, answer.body) # "ok"
    THEN HandleResponse(answer.status, answer.body)
    ELSE IF answer.success THEN ""
    ELSE IF answer.body = "message" THEN BackendText(answer.body)
    ELSE "Invalid coupon code"

NoCoupon == [pc |-> "idle", code |-> ""]

\* applyCoupon up to `await this.api.post(applyCoupon, ...)`; the model
\* follows one coupon request at a time
ApplyCoupon(couponCode) ==
    /\ ServicePage
    /\ coupon.pc = "idle"
    /\ coupon' = [pc |-> "posted", code |-> couponCode]
    /\ KeepCartState /\ UNCHANGED <<checkoutData, ssCheckout, coOp, available, page, order>>

CouponAnswered_ClearsOnRefusal(answer) ==
    /\ ServicePage
    /\ coupon.pc = "posted"
    /\ coupon' = NoCoupon
    /\ IF CartApplyCoupon(answer) = ""
       THEN Store([checkoutData EXCEPT !.couponCode = coupon.code,
                                       !.discount = answer.discount], "applyCoupon")
       ELSE /\ checkoutData' = [checkoutData EXCEPT !.couponCode = "", !.discount = 0]
            /\ ssCheckout' = SaveCheckoutData(checkoutData')
            /\ coOp' = Thrown("applyCoupon", {CartApplyCoupon(answer)})
    /\ KeepCartState /\ UNCHANGED <<available, page, order>>

\* applyCoupon after the request: a success stores code and discount, anything
\* else is thrown with the error CartService.applyCoupon returned
CouponAnswered(answer) ==
    /\ ServicePage
    /\ coupon.pc = "posted"
    /\ coupon' = NoCoupon
    /\ IF CartApplyCoupon(answer) = ""
       THEN Store([checkoutData EXCEPT !.couponCode = coupon.code,
                                       !.discount = answer.discount], "applyCoupon")
       ELSE Refuse("applyCoupon", {CartApplyCoupon(answer)})
    /\ KeepCartState /\ UNCHANGED <<available, page, order>>

RemoveCoupon ==
    /\ ServicePage
    /\ Store([checkoutData EXCEPT !.couponCode = "", !.discount = 0], "removeCoupon")
    /\ KeepCartState /\ UNCHANGED <<available, page, order, coupon>>

\* calculateTotals of CheckoutService (by = "checkout") or of CartService
CalculateTotals(by) ==
    /\ ServicePage
    /\ coOp' = CoOp("calculateTotals", "ok", {},
                    IF by = "checkout" THEN CheckoutTotals ELSE CartTotals)
    /\ KeepCartState /\ UNCHANGED <<checkoutData, ssCheckout, available, page, order, coupon>>

\* createOrder up to `await this.api.post(orders, orderData)`; the model
\* follows one order request at a time
CreateOrder ==
    /\ ServicePage
    /\ order.phase # "posted"
    /\ order' = [phase |-> IF ValidateCheckout = {} THEN "posted" ELSE "rejected",
                 by |-> "service", items |-> cart, known |-> TRUE,
                 errors |-> ValidateCheckout, guestEmail |-> ""]
    /\ coOp' = IF ValidateCheckout = {} THEN CoOp("createOrder", "posted", {}, NoTotals)
               ELSE Thrown("createOrder", { e.kind : e \in ValidateCheckout })
    /\ KeepCartState /\ UNCHANGED <<checkoutData, ssCheckout, available, page, coupon>>

\* clearCheckoutData
ClearCheckoutData ==
    /\ checkoutData' = DefaultCheckoutData
    /\ ssCheckout' = NoStored

OrderAnswered_ClearsOnFailure(success) ==
    /\ ServicePage
    /\ order.phase = "posted"
    /\ IF success
       THEN /\ ClearCart
            /\ ClearCheckoutData
            /\ order' = [order EXCEPT !.phase = "placed"]
            /\ coOp' = Returned("createOrder")
       ELSE /\ order' = [order EXCEPT !.phase = "failed"]
            /\ coOp' = Thrown("createOrder", {"Failed to create order"})
            /\ ClearCheckoutData
            /\ KeepCartState
    /\ UNCHANGED <<available, page, coupon>>

OrderAnswered_KeepsStored(success) ==
    /\ ServicePage
    /\ order.phase = "posted"
    /\ IF success
       THEN /\ ClearCart
            /\ checkoutData' = DefaultCheckoutData
            /\ ssCheckout' = SaveCheckoutData(DefaultCheckoutData)
            /\ order' = [order EXCEPT !.phase = "placed"]
            /\ coOp' = Returned("createOrder")
       ELSE /\ order' = [order EXCEPT !.phase = "failed"]
            /\ coOp' = Thrown("createOrder", {"Failed to create order"})
            /\ KeepCartState /\ UNCHANGED <<checkoutData, ssCheckout>>
    /\ UNCHANGED <<available, page, coupon>>

\* createOrder after the request: an order in the response clears the cart
\* and the checkout data, anything else is thrown
OrderAnswered(success) ==
    /\ ServicePage
    /\ order.phase = "posted"
    /\ IF success
       THEN /\ ClearCart
            /\ ClearCheckoutData
            /\ order' = [order EXCEPT !.phase = "placed"]
            /\ coOp' = Returned("createOrder")
       ELSE /\ order' = [order EXCEPT !.phase = "failed"]
            /\ coOp' = Thrown("createOrder", {"Failed to create order"})
            /\ KeepCartState /\ UNCHANGED <<checkoutData, ssCheckout>>
    /\ UNCHANGED <<available, page, coupon>>

\* what the stand-alone checkout page leaves alone: it has no CheckoutService
KeepCheckoutData == UNCHANGED <<checkoutData, ssCheckout, coupon, coOp>>

\* ------------------------------------------------------ the checkout page

\* what the form holds when it is submitted
Forms == [fields : BOOLEAN, guestEmail : {"", "invalid", "valid"}, terms : BOOLEAN]

\* the carts GET /cart may answer with on the page
PageCarts == {<<>>, <<RemoteItem("A", 1)>>, <<RemoteItem("A", MaxStock)>>}

\* handleCheckoutSubmit's checks, in its order; "" when the form passes
FormError(form) ==
    IF ~form.fields THEN "MissingField"
    ELSE IF ~page.user /\ form.guestEmail = "" THEN "MissingEmail"
    ELSE IF ~page.user /\ form.guestEmail = "invalid" THEN "InvalidEmail"
    ELSE IF ~form.terms THEN "Terms"
    ELSE ""

\* initCheckout after `await api.getCart()`: an empty or missing cart shows
\* the error and arms the 2 s redirect to the cart page; a handoff armed
\* before it (1 s or 1.5 s) is due first
CartLoaded(c, hasCart) ==
    /\ page.phase = "loading"
    /\ page' = [page EXCEPT !.cart = IF hasCart THEN c ELSE <<>>,
                            !.phase = IF hasCart /\ Len(c) > 0 THEN "ready" ELSE "empty",
                            !.redirectFirst = ~(hasCart /\ Len(c) > 0) /\ page.pending = <<>>]
    /\ KeepCartState /\ KeepCheckoutData /\ UNCHANGED <<available, order>>

\* initCheckout's catch: getCart threw, the form stays on screen
CartLoadFailed ==
    /\ page.phase = "loading"
    /\ page' = [page EXCEPT !.phase = "failed"]
    /\ KeepCartState /\ KeepCheckoutData /\ UNCHANGED <<available, order>>

\* the 2 s timer of the empty-cart branch navigates to /cart.html
RedirectToCart ==
    /\ page.phase = "empty"
    /\ page.pending = <<>> \/ page.redirectFirst
    /\ page' = [page EXCEPT !.phase = "left"]
    /\ KeepCartState /\ KeepCheckoutData /\ UNCHANGED <<available, order>>

\* handleCheckoutSubmit up to `await api.createOrder(formData)`; the listener
\* is attached before initCheckout runs and stays until the page is left
HandleCheckoutSubmit(form) ==
    /\ page.phase \in {"loading", "ready", "empty", "failed"}
    /\ order.phase # "posted"
    /\ Len(page.pending) < MaxPending
    /\ order' = [phase |-> IF FormError(form) = "" THEN "posted" ELSE "rejected",
                 by |-> "page", items |-> page.cart,
                 known |-> page.phase \in {"ready", "empty"},
                 errors |-> IF FormError(form) = "" THEN {}
                            ELSE { Issue(FormError(form), NoProduct) },
                 guestEmail |-> form.guestEmail]
    /\ KeepCartState /\ KeepCheckoutData /\ UNCHANGED <<available, page>>

\* the key/value pairs a gateway object carries besides the flag
GatewayPairs == {<<"merchant_id", "10000100">>, <<"amount", "100.00">>}

\* response.paymentData: none, or an object, as its set of key/value pairs,
\* whose sandbox flag is true, false or missing
NoPaymentData == {<<"none", "none">>}
PaymentDatas ==
    {NoPaymentData, GatewayPairs,
     GatewayPairs \cup {<<"sandbox", "true">>}, GatewayPairs \cup {<<"sandbox", "false">>}}

\* redirectToPayFast: the POST form it submits, 1 s after the response
RedirectToPayFast(paymentData) ==
    [kind |-> "payfast", delay |-> 1000,
     action |-> IF <<"sandbox", "true">> \in paymentData THEN "https://sandbox.payfast.co.za/eng/process"
                ELSE "https://www.payfast.co.za/eng/process",
     fields |-> { kv \in paymentData : kv[1] # "sandbox" }]

\* window.location.href = /order-details.html?id=..., 1.5 s after the response
ToOrderDetails == [kind |-> "details", delay |-> 1500, action |-> "/order-details.html", fields |-> {}]

\* the handoff the success branch of handleCheckoutSubmit arms, with the
\* payment data of the response it answers
HandoffFor(paymentData) ==
    [of |-> paymentData,
     does |-> IF paymentData # NoPaymentData THEN RedirectToPayFast(paymentData)
              ELSE ToOrderDetails]

\* handleCheckoutSubmit after the request: success arms the handoff's timer
PageOrderAnswered(success, paymentData) ==
    /\ page.phase \in {"loading", "ready", "empty", "failed"}
    /\ order.phase = "posted"
    /\ order' = [order EXCEPT !.phase = IF success THEN "placed" ELSE "failed"]
    /\ page' = [page EXCEPT !.pending = IF success THEN Append(@, HandoffFor(paymentData)) ELSE @]
    /\ KeepCartState /\ KeepCheckoutData /\ UNCHANGED available

\* the timer of an armed handoff fires and the page is left; a handoff armed
\* earlier with a delay no longer than this one's is due before it
HandoffFires(k) ==
    /\ page.phase \in {"loading", "ready", "empty", "failed"}
    /\ k \in 1..Len(page.pending)
    /\ \A j \in 1..(k - 1) : page.pending[j].does.delay > page.pending[k].does.delay
    /\ page' = [page EXCEPT !.phase = "left",
                            !.done = Append(@, page.pending[k]),
                            !.pending = SubSeq(@, 1, k - 1) \o SubSeq(@, k + 1, Len(@))]
    /\ KeepCartState /\ KeepCheckoutData /\ UNCHANGED <<available, order>>

\* ------------------------------------------- AuthService behind rateLimiter

MaxLoginAttempts == 5                     \* SECURITY_CONFIG.MAX_LOGIN_ATTEMPTS
LockoutDuration == 2                      \* SECURITY_CONFIG.LOCKOUT_DURATION, in ticks
NoLockout == 0 - 1                        \* lockoutUntil: null

\* no entry under the identifier's key
NoData == [present |-> FALSE, count |-> 0, firstAttempt |-> 0, lockoutUntil |-> NoLockout]

\* isAllowed: the entry it reads, created when absent
Fetched == IF rateLimit.present THEN rateLimit
           ELSE [present |-> TRUE, count |-> 0, firstAttempt |-> now, lockoutUntil |-> NoLockout]

\* isAllowed: the entry after `Reset if lockout period expired`
AfterLockout ==
    IF Fetched.lockoutUntil # NoLockout /\ now >= Fetched.lockoutUntil
    THEN [Fetched EXCEPT !.count = 0, !.firstAttempt = now, !.lockoutUntil = NoLockout]
    ELSE Fetched

\* isAllowed: the entry after `Reset counter if more than lockout duration
\* has passed since first attempt`
AfterWindow ==
    IF now - AfterLockout.firstAttempt > LockoutDuration
    THEN [AfterLockout EXCEPT !.count = 0, !.firstAttempt = now]
    ELSE AfterLockout

\* isAllowed: the value it returns when it does not throw
IsAllowed == AfterWindow.count < MaxLoginAttempts

\* recordAttempt: the entry it stores
RecordAttempt ==
    LET data == IF rateLimit.present THEN rateLimit
                ELSE [present |-> TRUE, count |-> 0, firstAttempt |-> now,
                      lockoutUntil |-> NoLockout]
    IN  [data EXCEPT !.count = @ + 1,
                     !.lockoutUntil = IF data.count + 1 >= MaxLoginAttempts
                                      THEN now + LockoutDuration ELSE @]

\* authOp is the last login call: whether it was refused locally, is waiting
\* for the backend, succeeded or failed, and the times of the (at most
\* MaxLoginAttempts most recent) logins the backend rejected since the last
\* successful one.  Failed(at): those times after one more rejection
Failed(at) ==
    IF Len(authOp.failedAt) < MaxLoginAttempts THEN Append(authOp.failedAt, at)
    ELSE Append(Tail(authOp.failedAt), at)

\* AuthService.login up to `await this.api.login(credentials)`; isAllowed
\* throws 'Too many attempts' while the lockout period is running
AuthLogin ==
    /\ authOp.res # "waiting"
    /\ IF Fetched.lockoutUntil # NoLockout /\ now < Fetched.lockoutUntil
       THEN /\ rateLimit' = Fetched
            /\ authOp' = [authOp EXCEPT !.res = "refused"]
       ELSE /\ rateLimit' = AfterWindow
            /\ authOp' = [authOp EXCEPT !.res = IF IsAllowed THEN "waiting" ELSE "refused"]
    /\ UNCHANGED <<now, authToken, apiToken>>

\* AuthService.login after the await: a success stores the token and resets
\* the limiter; a non-success body records the attempt and throws; an error
\* thrown by api.login goes through the catch block, which rethrows it
AuthLoginAnswered(answer) ==
    /\ authOp.res = "waiting"
    /\ IF answer = "ok"
       THEN /\ rateLimit' = NoData
            /\ authOp' = [res |-> "ok", failedAt |-> <<>>]
            /\ authToken' = TRUE /\ apiToken' = TRUE
       ELSE /\ rateLimit' = IF answer = "rejectedBody" THEN RecordAttempt ELSE rateLimit
            /\ authOp' = [res |-> "failed", failedAt |-> Failed(now)]
            /\ authToken' = (authToken /\ answer # "rejectedStatus")
            /\ UNCHANGED apiToken
    /\ UNCHANGED now

\* time passes on the login page
Tick ==
    /\ now < MaxNow
    /\ now' = now + 1
    /\ UNCHANGED <<rateLimit, authOp, authToken, apiToken>>

\* ---------------------------------------------------------- specifications

\* the rate limiter of a freshly loaded page: attempts is {}
InitAuthVars ==
    /\ rateLimit = NoData
    /\ now = 0
    /\ authOp = [res |-> "none", failedAt |-> <<>>]

KeepAuth == UNCHANGED <<rateLimit, now, authOp>>

InitCartVars ==
    /\ cart = <<>>
    /\ lsCart = <<>>
    /\ syncInProgress = FALSE
    /\ lastOp = [kind |-> "none", pid |-> "A", quantity |-> 0,
                 stock |-> Undefined, res |-> "ok", remote |-> <<>>, prevAdd |-> 0]

InitSessionVars ==
    /\ apiToken = authToken
    /\ sessionId = NoSession
    /\ nextId = 1
    /\ handlers = [h \in Handlers |-> Idle]
    /\ sessOp = [kind |-> "none", sid |-> NoSession, auth |-> FALSE,
                 afterMerge |-> FALSE]

InitRequestVars ==
    /\ attempt = [pc |-> "idle", i |-> 0, err |-> "ok", cancelled |-> "no"]
    /\ timers = {}
    /\ reqLog = <<>>

InitSyncVars ==
    /\ push = [body |-> <<>>, live |-> FALSE, i |-> 0, issued |-> FALSE, open |-> FALSE]
    /\ pulls = 0
    /\ stale = {}

\* a checkout session filled in on an earlier page of the same tab
FilledCheckoutData ==
    [step |-> 2, shippingInfo |-> GoodShippingInfo, shippingMethod |-> "express",
     paymentMethod |-> "payfast", couponCode |-> "SAVE", discount |-> 100,
     agreeToTerms |-> TRUE]

\* loadCheckoutData: the stored entry parsed, the defaults when there is none
LoadCheckoutData(stored) == IF stored.present THEN stored.data ELSE DefaultCheckoutData

\* the constructor in a tab that may hold a stored checkout session
InitLoadedCheckoutData ==
    /\ ssCheckout \in {NoStored, SaveCheckoutData(FilledCheckoutData)}
    /\ checkoutData = LoadCheckoutData(ssCheckout)
    /\ coupon = NoCoupon
    /\ coOp = Returned("none")

\* a tab with no stored checkout data: loadCheckoutData returns the defaults
InitCheckoutData ==
    /\ checkoutData = DefaultCheckoutData
    /\ ssCheckout = NoStored
    /\ coupon = NoCoupon
    /\ coOp = Returned("none")

\* no checkout in progress, every product fully in stock at the backend
InitCheckoutVars ==
    /\ available = [p \in Products |-> MaxStock]
    /\ page = NoPage
    /\ order = NoOrder
    /\ InitCheckoutData

InitOthers ==
    /\ InitCartVars /\ InitSessionVars /\ InitRequestVars /\ InitAuthVars
    /\ InitSyncVars /\ serverCart = <<>>
    /\ InitCheckoutVars

\* a page with a CartService, visited as a guest or logged in
InitCart == authToken \in BOOLEAN /\ InitOthers

\* the login / registration page, visited as a guest
InitSession == authToken = FALSE /\ InitOthers

\* a page that issues one request through the service, as a guest or logged in
InitRequest == authToken \in BOOLEAN /\ InitOthers

KeepSession == UNCHANGED <<authToken, apiToken, sessionId, nextId, handlers, sessOp>>

KeepCart == UNCHANGED <<cart, lsCart, syncInProgress, lastOp>>

KeepRequest == UNCHANGED <<attempt, timers, reqLog>>

KeepSync == UNCHANGED <<push, serverCart, pulls, stale>>

\* a page with a CartService whose user may hold a cart on the backend
InitSync ==
    /\ authToken \in BOOLEAN
    /\ InitCartVars /\ InitSessionVars /\ InitRequestVars /\ InitSyncVars
    /\ InitCheckoutVars /\ InitAuthVars
    /\ serverCart \in {<<>>, <<RemoteItem("B", 1)>>}

KeepCheckout == UNCHANGED <<checkoutData, available, page, order, ssCheckout, coupon, coOp>>

\* the carts a visitor may bring to the checkout: empty, one line of A (whose
\* quantity a pull may have put above the line's stock count), or A and B
CheckoutCarts ==
    {<<>>}
    \cup { <<CartItem("A", q, s)>> : q \in 1..MaxStock, s \in StockVals }
    \cup { <<CartItem("A", q, s), CartItem("B", 1, Undefined)>> :
             q \in 1..MaxStock, s \in StockVals }

\* a page with CheckoutService over the visitor's cart, or the stand-alone
\* checkout page while its initCheckout is waiting for the cart
InitCheckout ==
    /\ authToken \in BOOLEAN
    /\ InitSessionVars /\ InitRequestVars /\ InitSyncVars /\ serverCart = <<>>
    /\ InitAuthVars
    /\ syncInProgress = FALSE
    /\ lastOp = [kind |-> "none", pid |-> "A", quantity |-> 0,
                 stock |-> Undefined, res |-> "ok", remote |-> <<>>, prevAdd |-> 0]
    /\ order = NoOrder
    /\ available \in { f \in [Products -> 0..MaxStock] : f["B"] = MaxStock }
    /\ \/ /\ cart \in CheckoutCarts
          /\ page = NoPage
          /\ InitLoadedCheckoutData
       \/ /\ cart = <<>>
          /\ page \in { [NoPage EXCEPT !.phase = "loading", !.user = u] : u \in BOOLEAN }
          /\ InitCheckoutData
    /\ lsCart = cart

\* the frame of a CartService step
OnlyCart == KeepSession /\ KeepRequest /\ KeepSync /\ KeepCheckout /\ KeepAuth

\* the frame of a session step
OnlySession == KeepCart /\ KeepRequest /\ KeepSync /\ KeepCheckout /\ KeepAuth

\* the frame of a step of the request in flight, which may clear authToken
OnlyRequest ==
    /\ KeepCart /\ KeepSync /\ KeepCheckout /\ KeepAuth
    /\ UNCHANGED <<apiToken, sessionId, nextId, handlers, sessOp>>

\* the frame of a CartService step that may send or end a request
OnlySync ==
    /\ KeepRequest /\ KeepCheckout /\ KeepAuth
    /\ UNCHANGED <<apiToken, sessionId, nextId, handlers, sessOp>>

\* the frame of a checkout step
OnlyCheckout == KeepSession /\ KeepRequest /\ KeepSync /\ KeepAuth

\* the frame of a step of AuthService.login
OnlyAuth ==
    /\ KeepCart /\ KeepRequest /\ KeepSync /\ KeepCheckout
    /\ UNCHANGED <<sessionId, nextId, handlers, sessOp>>

\* the carts brought to the checkout steps: empty, or A alone or with B,
\* no line carrying a stock count
PricedCarts ==
    {<<>>}
    \cup { <<CartItem("A", q, Undefined)>> : q \in 1..MaxStock }
    \cup { <<CartItem("A", q, Undefined), CartItem("B", 1, Undefined)>> : q \in 1..MaxStock }

\* a page with CheckoutService in a tab with no stored checkout data, the
\* visitor logged in
InitCheckoutData_Page ==
    /\ authToken = TRUE
    /\ InitSessionVars /\ InitRequestVars /\ InitSyncVars /\ serverCart = <<>>
    /\ InitAuthVars
    /\ syncInProgress = FALSE
    /\ lastOp = [kind |-> "none", pid |-> "A", quantity |-> 0,
                 stock |-> Undefined, res |-> "ok", remote |-> <<>>, prevAdd |-> 0]
    /\ InitCheckoutData
    /\ order = NoOrder
    /\ available = [p \in Products |-> MaxStock]
    /\ page = NoPage
    /\ cart \in PricedCarts
    /\ lsCart = cart

NextCart ==
    \/ \E p \in Products, q \in QtyArgs, s \in StockVals : AddToCart(p, q, s) /\ OnlyCart
    \/ \E p \in Products, q \in QtyArgs : UpdateQuantity(p, q) /\ OnlyCart
    \/ \E p \in Products : RemoveFromCart(p) /\ OnlyCart
    \/ ClearCart /\ OnlyCart
    \/ SyncComplete /\ OnlyCart
    \/ \E r \in RemoteCarts : LoadFromBackend(r) /\ OnlyCart
    \/ LoadFromBackendFailed /\ OnlyCart

SpecCart == InitCart /\ [][NextCart]_vars

NextSession ==
    \/ \E h \in Handlers : SubmitLogin(h) /\ OnlySession
    \/ \E h \in Handlers, o \in Outcomes, t \in BOOLEAN : LoginResponse(h, o, t) /\ OnlySession
    \/ \E h \in Handlers : Resend(h) /\ OnlySession
    \/ \E h \in Handlers, o \in Outcomes : MergeResponse(h, o) /\ OnlySession
    \/ GetCart /\ OnlySession
    \/ ApiAddToCart /\ OnlySession
    \/ Logout /\ OnlySession

SpecSession == InitSession /\ [][NextSession]_vars

NextRequest ==
    \/ StartRequest /\ OnlyRequest
    \/ \E st \in Statuses, b \in Bodies : Respond(st, b) /\ OnlyRequest
    \/ NetworkError /\ OnlyRequest
    \/ \E k \in 0..(RetryAttempts - 1) : TimerFires(k) /\ OnlyRequest
    \/ BackoffElapsed /\ OnlyRequest
    \/ \E k \in {"k1"} : CancelRequest(k) /\ OnlyRequest
    \/ CancelAllRequests /\ OnlyRequest
    \/ StartBasicRequest /\ OnlyRequest
    \/ \E st \in Statuses, b \in Bodies : BasicRespond(st, b) /\ OnlyRequest

SpecRequest == InitRequest /\ [][NextRequest]_vars

\* the same request where the callbacks setTimeout has scheduled do run: the
\* timer of the attempt in flight (fetchWithTimeout) and the backoff delay
\* (retryRequest's awaited setTimeout)
SpecRequestFair ==
    /\ SpecRequest
    /\ WF_vars(\E k \in 0..(RetryAttempts - 1) : TimerFires(k) /\ OnlyRequest)
    /\ WF_vars(BackoffElapsed /\ OnlyRequest)

\* the user shops for product A, of stock MaxStock: its line is raised one by
\* one, set or removed; a line for B can only come from the backend
NextSync ==
    \/ AddToCart("A", 1, MaxStock) /\ PostCart /\ KeepSession /\ KeepRequest /\ KeepCheckout /\ KeepAuth
    \/ \E q \in {0, MaxStock} :
           UpdateQuantity("A", q) /\ PostCart /\ KeepSession /\ KeepRequest /\ KeepCheckout /\ KeepAuth
    \/ \E p \in Products : RemoveFromCart(p) /\ PostCart /\ KeepSession /\ KeepRequest /\ KeepCheckout /\ KeepAuth
    \/ ClearCart /\ PostCart /\ KeepSession /\ KeepRequest /\ KeepCheckout /\ KeepAuth
    \/ PushSucceeds /\ OnlySync
    \/ PushRetry /\ OnlySync
    \/ \E o \in Outcomes : PushFails(o) /\ OnlySync
    \/ PullStart /\ OnlySync
    \/ PullAnswer /\ OnlySync
    \/ PullFails /\ OnlySync

SpecSync == InitSync /\ [][NextSync]_vars

\* the same page without pulls: the mutations and the pushes they start
NextPush ==
    \/ AddToCart("A", 1, MaxStock) /\ PostCart /\ KeepSession /\ KeepRequest /\ KeepCheckout /\ KeepAuth
    \/ \E q \in {0, MaxStock} :
           UpdateQuantity("A", q) /\ PostCart /\ KeepSession /\ KeepRequest /\ KeepCheckout /\ KeepAuth
    \/ \E p \in Products : RemoveFromCart(p) /\ PostCart /\ KeepSession /\ KeepRequest /\ KeepCheckout /\ KeepAuth
    \/ ClearCart /\ PostCart /\ KeepSession /\ KeepRequest /\ KeepCheckout /\ KeepAuth
    \/ PushSucceeds /\ OnlySync
    \/ PushRetry /\ OnlySync
    \/ \E o \in Outcomes : PushFails(o) /\ OnlySync

\* that page where the awaited post of a push does settle: each attempt is
\* answered, fails, or is aborted by its own timeout, and attempts are bounded
SpecPushFair ==
    /\ InitSync /\ [][NextPush]_vars
    /\ WF_vars((PushSucceeds \/ PushRetry \/ \E o \in Outcomes : PushFails(o)) /\ OnlySync)

NextCheckout ==
    \/ \E i \in {GoodShippingInfo, NoShippingInfo} : SaveShippingInfo(i) /\ OnlyCheckout
    \/ \E m \in ShippingArgs : SaveShippingMethod(m) /\ OnlyCheckout
    \/ \E m \in PaymentArgs : SavePaymentMethod(m) /\ OnlyCheckout
    \/ \E a \in BOOLEAN : SetTermsAgreement(a) /\ OnlyCheckout
    \/ CreateOrder /\ OnlyCheckout
    \/ \E ok \in BOOLEAN : OrderAnswered(ok) /\ OnlyCheckout
    \/ \E c \in PageCarts, has \in BOOLEAN : CartLoaded(c, has) /\ OnlyCheckout
    \/ CartLoadFailed /\ OnlyCheckout
    \/ RedirectToCart /\ OnlyCheckout
    \/ \E f \in Forms : HandleCheckoutSubmit(f) /\ OnlyCheckout
    \/ \E ok \in BOOLEAN, pd \in PaymentDatas : PageOrderAnswered(ok, pd) /\ OnlyCheckout
    \/ \E k \in 1..MaxPending : HandoffFires(k) /\ OnlyCheckout

SpecCheckout == InitCheckout /\ [][NextCheckout]_vars

\* a page with CheckoutService that is working through the checkout steps:
\* the methods that fill the checkout session, every form a caller may pass
NextCheckoutData ==
    \/ \E st \in Steps : SetCurrentStep(st) /\ OnlyCheckout
    \/ \E i \in ShippingInfos : SaveShippingInfo(i) /\ OnlyCheckout
    \/ \E m \in ShippingArgs : SaveShippingMethod(m) /\ OnlyCheckout
    \/ \E m \in PaymentArgs : SavePaymentMethod(m) /\ OnlyCheckout
    \/ \E c \in CouponCodes : ApplyCoupon(c) /\ OnlyCheckout
    \/ \E a \in CouponAnswers : CouponAnswered(a) /\ OnlyCheckout
    \/ RemoveCoupon /\ OnlyCheckout
    \/ \E by \in {"checkout", "cart"} : CalculateTotals(by) /\ OnlyCheckout

SpecCheckoutData == InitCheckoutData_Page /\ [][NextCheckoutData]_vars

\* the same page while the visitor works on coupon and cart: the coupon
\* methods, the totals, and the removal of a cart line or the change of its
\* quantity through the page's CartService
NextCheckoutTotals ==
    \/ \E c \in CouponCodes : ApplyCoupon(c) /\ OnlyCheckout
    \/ \E a \in CouponAnswers : CouponAnswered(a) /\ OnlyCheckout
    \/ RemoveCoupon /\ OnlyCheckout
    \/ \E by \in {"checkout", "cart"} : CalculateTotals(by) /\ OnlyCheckout
    \/ \E p \in Products : RemoveFromCart(p) /\ OnlyCheckout /\ UNCHANGED checkoutVars
    \/ \E q \in 1..MaxStock : UpdateQuantity("A", q) /\ OnlyCheckout /\ UNCHANGED checkoutVars

SpecCheckoutTotals == InitCheckoutData_Page /\ [][NextCheckoutTotals]_vars

\* the login page of a guest: logins for one identifier while time passes.
\* The backend answers a login with success and a token, with a 200 body
\* without success, or with an error status (401), on which api.login throws
NextAuth ==
    \/ AuthLogin /\ OnlyAuth
    \/ \E a \in {"ok", "rejectedBody", "rejectedStatus"} : AuthLoginAnswered(a) /\ OnlyAuth
    \/ Tick /\ OnlyAuth

SpecAuth == InitSession /\ [][NextAuth]_vars

\* ------------------------------------------------------- cart properties

LinesOf(c, p) == { i \in 1..Len(c) : c[i].productId = p }

\* the step is a CartService call, whose arguments and result lastOp' holds,
\* and not the completion of a push (the one step that resets syncInProgress)
IsCall == ~(syncInProgress /\ ~syncInProgress')

\* C1: starting from a cart without the product, addToCart(product, q1) and
\* then addToCart(product, q2), q1, q2 >= 1, stock unknown or >= q1+q2, leave
\* exactly one line for the product, with quantity q1+q2.
C1_IdempotentAdd ==
    ( /\ lastOp.kind = "add"
      /\ lastOp.prevAdd >= 1
      /\ lastOp.quantity >= 1
      /\ (lastOp.stock = Undefined \/ lastOp.stock >= lastOp.prevAdd + lastOp.quantity) )
    => /\ lastOp.res = "ok"
       /\ Cardinality(LinesOf(cart, lastOp.pid)) = 1
       /\ \A i \in LinesOf(cart, lastOp.pid) :
              cart[i].quantity = lastOp.prevAdd + lastOp.quantity

C1_Witness ==
    /\ lastOp.kind = "add" /\ lastOp.prevAdd = 1 /\ lastOp.quantity = 1
    /\ lastOp.stock = 2 /\ lastOp.res = "ok"
    /\ Len(cart) = 2

\* C2: no two cart lines refer to the same product id, after any sequence of
\* addToCart, updateQuantity, removeFromCart, clearCart and loadFromBackend.
C2_UniqueLines ==
    \A i, j \in 1..Len(cart) : cart[i].productId = cart[j].productId => i = j

\* a pull whose answer names a product that a locally added line already holds
C2_Witness ==
    /\ lastOp.kind = "pull" /\ lastOp.res = "ok" /\ Len(lastOp.remote) = 2
    /\ Len(cart) = 2
    /\ cart[1].stock # Undefined /\ cart[2].stock # Undefined

ExceedsStock(op, c) ==
    LET i == findCartItemIn(c, op.pid)
        have == IF i = 0 THEN 0 ELSE c[i].quantity
    IN  \/ /\ op.kind \in {"add", "addNew"}
           /\ op.quantity >= 1
           /\ \/ op.stock # Undefined /\ op.stock < have + op.quantity
              \/ i # 0 /\ c[i].stock # Undefined /\ c[i].stock < have + op.quantity
        \/ /\ op.kind = "update"
           /\ op.quantity >= 1
           /\ i # 0 /\ c[i].stock # Undefined /\ c[i].stock < op.quantity

\* C4: an addToCart or updateQuantity call that requests more than the
\* available stock is rejected with an insufficient-stock error and leaves the
\* cart, line set and quantities, as it was before the call.
C4_StockRejectNoPartialApply ==
    [][ (IsCall /\ ExceedsStock(lastOp', cart))
          => (lastOp'.res = "InsufficientStock" /\ cart' = cart /\ lsCart' = lsCart) ]_vars

C4_Witness ==
    /\ lastOp.kind = "update" /\ lastOp.res = "InsufficientStock"
    /\ Len(cart) = 2

\* C5 as stated: every cart line whose stock count is known has quantity <=
\* that stock count, also when pulls from the backend are interleaved.
C5_StockRespectedAlways ==
    \A i \in 1..Len(cart) :
        cart[i].stock # Undefined => cart[i].quantity <= cart[i].stock

\* C5 amended: right after a successful addToCart or updateQuantity the line
\* the call wrote has quantity <= its stock count when that count is known.
C5_StockRespectedAtAddUpdate ==
    (lastOp.kind \in {"add", "addNew", "update"} /\ lastOp.res = "ok" /\ lastOp.quantity >= 1)
    => /\ LinesOf(cart, lastOp.pid) # {}
       /\ \A i \in LinesOf(cart, lastOp.pid) :
              cart[i].stock # Undefined => cart[i].quantity <= cart[i].stock

\* an accepted update of a line that a pull had pushed over its stock count
C5_Witness ==
    /\ lastOp.kind = "update" /\ lastOp.res = "ok" /\ lastOp.quantity = 2
    /\ \E i \in 1..Len(cart) : cart[i].productId = lastOp.pid /\ cart[i].stock = 2
    /\ \E j \in 1..Len(cart) : cart[j].stock # Undefined /\ cart[j].quantity > cart[j].stock

\* C6: after a pull, every item present locally and remotely has the remote
\* quantity, every remote-only item is in the local cart, and every local-only
\* item is still there, unchanged.
C6_ReconciliationAuthority ==
    [][ (IsCall /\ lastOp'.kind = "pull" /\ lastOp'.res = "ok")
          => /\ \A k \in 1..Len(lastOp'.remote) :
                    \E i \in 1..Len(cart') :
                        /\ cart'[i].productId = lastOp'.remote[k].productId
                        /\ cart'[i].quantity = lastOp'.remote[k].quantity
             /\ \A i \in 1..Len(cart) :
                    (\A k \in 1..Len(lastOp'.remote) :
                         lastOp'.remote[k].productId # cart[i].productId)
                    => \E j \in 1..Len(cart') : cart'[j] = cart[i] ]_vars

\* local line matched by the answer (A or B), one local-only line
C6_Witness ==
    /\ lastOp.kind = "pull" /\ lastOp.res = "ok" /\ Len(lastOp.remote) = 1
    /\ Len(cart) = 2
    /\ cart[1].stock # Undefined /\ cart[2].stock # Undefined
    /\ \E i \in 1..2 : /\ cart[i].productId = lastOp.remote[1].productId
                       /\ cart[i].quantity > cart[i].stock

\* C7: for an unchanged remote cart, pulling again yields the same local cart
\* as pulling once.
C7_PullFixedPoint ==
    (lastOp.kind = "pull" /\ lastOp.res = "ok")
    => MergeBackend(cart, lastOp.remote) = cart

C7_Witness ==
    /\ lastOp.kind = "pull" /\ lastOp.res = "ok" /\ Len(lastOp.remote) = 2
    /\ cart[1].stock # Undefined /\ cart[2].stock = Undefined

\* ---------------------------------------------------- session properties

\* C8 as stated: for each successful login or registration event the client
\* issues the guest-cart merge request at most once, also when the handler is
\* triggered again during the merge and when the merge request hits a server
\* error or a timeout.
C8_MergeRequestAtMostOnce ==
    \A h \in Handlers : handlers[h].merges <= 1

\* C8 amended: each login or registration event calls mergeCart at most once;
\* that call issues at most RetryAttempts merge requests, each one after the
\* first only after the attempt before it failed with a retryable error.
C8_MergeRequestsBoundedByRetry ==
    \A h \in Handlers :
        /\ handlers[h].merges <= RetryAttempts
        /\ handlers[h].merges <= handlers[h].fails + 1
        /\ handlers[h].merges = 0 => handlers[h].pc \notin {"mergeWait", "mergeBackoff", "merged"}

\* one handler has used all its attempts while the handler triggered again is
\* still waiting for its own merge
C8_Witness ==
    /\ handlers["h1"].merges = RetryAttempts /\ handlers["h1"].pc = "mergeWait"
    /\ handlers["h2"].pc = "mergeWait"

\* C9: after a guest with a stored session id logs in or registers and the
\* merge succeeds, a following getCart as the authenticated user leaves no
\* sessionId entry in storage.
C9_NoSessionIdAfterMergedGetCart ==
    (sessOp.kind = "getCart" /\ sessOp.auth /\ sessOp.afterMerge)
    => sessionId = NoSession

\* C10: getOrCreateSessionId returns the stored identifier on every call and
\* never replaces it; only a successful merge or a logout clears it.
C10_StableSessionId ==
    [][ /\ (sessionId # NoSession /\ sessionId' # sessionId)
            => (sessionId' = NoSession /\ sessOp'.kind \in {"mergeOk", "logout"})
        /\ (sessOp'.kind \in {"getCart", "addToCart"} /\ sessionId # NoSession)
            => (sessOp'.sid = sessionId /\ sessionId' = sessionId) ]_vars

\* a getCart that found the identifier of an earlier call, with a merge in flight
C10_Witness ==
    /\ sessOp.kind = "getCart" /\ sessOp.sid = 1 /\ sessionId = 1 /\ nextId = 2
    /\ \E h \in Handlers : handlers[h].pc = "mergeWait"

\* C11: every cart request names its cart by exactly one owner key: a guest
\* request carries the sessionId and no credential, an authenticated request
\* carries the credential and no sessionId; never both and never neither.
C11_ExactlyOneOwnerKey ==
    sessOp.kind \in {"getCart", "addToCart"}
    => (sessOp.auth <=> sessOp.sid = NoSession)

\* C19: the guest-cart merge request is issued only after the login or
\* registration request returned success, and no getCart for the newly
\* authenticated user is issued before that merge has completed successfully.
C19_MergeBeforeCartRead ==
    /\ \A h \in Handlers : handlers[h].merges > 0 => apiToken
    /\ (sessOp.kind = "getCart" /\ sessOp.auth)
           => \A h \in Handlers : handlers[h].merges > 0 => handlers[h].pc = "merged"

\* C32: after logout the auth token (and the user snapshot removed next to
\* it) and the guest session id are absent from storage and the request layer
\* holds no token, from any state in which logout is called.
C32_LogoutClearsSession ==
    sessOp.kind = "logout" => (~authToken /\ ~apiToken /\ sessionId = NoSession)

\* logout of a visitor who had logged in, whose guest cart had been merged and
\* for whom a session id had been generated
C32_Witness ==
    /\ sessOp.kind = "logout" /\ sessOp.afterMerge /\ nextId > 1
    /\ ~authToken /\ ~apiToken /\ sessionId = NoSession

\* ---------------------------------------------------- request properties

StatusesOf(log) == [k \in 1..Len(log) |-> log[k].status]

\* C14: an attempt answered with a client-error status (400, 401, 403, 404)
\* is never retried, with or without a backend-supplied message: it is the
\* request's last attempt and the request fails after it.
C14_ClientErrorNeverRetried ==
    \A k \in 1..Len(reqLog) :
        reqLog[k].status \in {400, 401, 403, 404}
        => (k = Len(reqLog) /\ attempt.pc = "thrown")

\* C21: after cancelRequest(key) or cancelAllRequests() was called while a
\* request was in flight, that request never delivers a successful response
\* to its caller.
C21_CancelledNeverSucceeds ==
    attempt.cancelled # "no" => attempt.pc # "returned"

\* C22: on any Unauthorized (401) response the request layer clears the
\* locally stored credentials (the stored token; the user snapshot is removed
\* by the statement next to it) and triggers no navigation or reload.
C22_UnauthorizedClearsCredentials ==
    /\ (\E k \in 1..Len(reqLog) : reqLog[k].status = 401) => ~authToken
    /\ attempt.pc # "reloaded"

\* C31: for every non-2xx response whose body carries a message field the
\* error reaching the caller carries exactly that backend message; the
\* status's default message is used only when the body supplies none.
C31_BackendMessageSurfaced ==
    \A k \in 1..Len(reqLog) :
        (reqLog[k].status \notin {NoResponse, 200} /\ reqLog[k].body \in {"message", "messageNotFound"})
        => reqLog[k].error = BackendText(reqLog[k].body)

\* every attempt made so far failed with an error retryRequest retries
AllRetryable == \A k \in 1..Len(reqLog) : OutcomeOf(reqLog[k].error) = "retryable"

\* retryRequest is running: an attempt is in flight or a backoff is awaited
Retrying == attempt.pc \in {"inflight", "backoff"}

\* C35: retryRequest always terminates: it invokes the request at most
\* RetryAttempts times, and when every attempt fails with a retryable error it
\* throws the last error to the caller after exactly RetryAttempts attempts.
C35_RetryTerminates ==
    /\ [](/\ Len(reqLog) + (IF attempt.pc = "inflight" THEN 1 ELSE 0) <= RetryAttempts
          /\ (AllRetryable /\ Len(reqLog) = RetryAttempts)
                 => (attempt.pc = "thrown" /\ attempt.err = reqLog[RetryAttempts].error)
          /\ (AllRetryable /\ reqLog # <<>> /\ attempt.pc = "thrown")
                 => Len(reqLog) = RetryAttempts)
    /\ (Retrying ~> attempt.pc \in {"returned", "thrown"})

\* three attempts failed in three different retryable ways; the last is thrown
C35_Witness ==
    /\ attempt.pc = "thrown" /\ Len(reqLog) = RetryAttempts /\ AllRetryable
    /\ reqLog[1].status = 503 /\ reqLog[2].body = "timeout" /\ reqLog[3].body = "network"
    /\ attempt.err = "Network"

\* the attempts of the request that the backend has answered
Answered == { k \in 1..Len(reqLog) : reqLog[k].status # NoResponse }

\* C34: one order submission (one api.post of the order) causes at most one
\* order-creation request to reach the backend, also when an attempt times
\* out at the client or is answered with a 5xx error.
C34_OneOrderRequest ==
    Cardinality(Answered) + (IF attempt.pc = "inflight" THEN 1 ELSE 0) <= 1

\* C15: when the responses are 503, 503, 200 under the default configuration
\* the request returns the 200 response after exactly RetryAttempts (three)
\* attempts, and the backoff delays between the attempts strictly increase.
C15_RetryThenSuccess ==
    (Len(reqLog) >= 2 /\ reqLog[1].status = 503 /\ reqLog[2].status = 503)
    => /\ 0 < reqLog[1].delay /\ reqLog[1].delay < reqLog[2].delay
       /\ reqLog[1].delay = RetryDelay
       /\ (attempt.pc \in {"returned", "thrown"} /\ reqLog[Len(reqLog)].status = 200)
              => /\ StatusesOf(reqLog) = <<503, 503, 200>>
                 /\ Len(reqLog) = RetryAttempts
                 /\ attempt.pc = "returned" /\ attempt.err = "ok"

C15_Witness ==
    /\ attempt.pc = "returned"
    /\ StatusesOf(reqLog) = <<503, 503, 200>>
    /\ reqLog[3].body = "noMessage"

\* C20: each attempt has its own timeout window: the attempt in flight is the
\* only one whose timer is armed (a retry arms a fresh one, a finished
\* attempt's timer is cleared and cancels no later attempt), and an attempt
\* that got no response in its window was aborted by its own timer and failed
\* with the timeout error.
C20_OwnTimeoutWindow ==
    /\ timers = (IF attempt.pc = "inflight" THEN {attempt.i} ELSE {})
    /\ \A k \in 1..Len(reqLog) :
           /\ reqLog[k].body = "timeout" <=> reqLog[k].by # NoTimer
           /\ reqLog[k].body = "timeout" => (reqLog[k].by = k - 1 /\ reqLog[k].error = "Timeout")

\* a timeout, an answered attempt and a third attempt waiting in its window
C20_Witness ==
    /\ Len(reqLog) = 2 /\ reqLog[1].body = "timeout" /\ reqLog[2].status = 503
    /\ attempt.pc = "inflight" /\ attempt.i = 2 /\ timers = {2}

\* ------------------------------------------------------- sync properties

\* cart sync requests awaiting their answer: the push and the pulls
Outstanding == (IF syncInProgress THEN 1 ELSE 0) + pulls

\* C16: at most one cart sync request (push or pull) is outstanding at any
\* time; a sync call that arrives while one is in flight issues no request.
C16_OneSyncOutstanding == Outstanding <= 1

\* no sync request is in flight
Quiet == ~syncInProgress /\ pulls = 0

\* C17: for an authenticated user with a reachable backend (no push
\* failed), once the mutations have stopped and the requests are answered the
\* backend has received a push equal to the final local cart, also when a
\* mutation happened while an earlier sync was in flight.
C17_FinalCartPushed ==
    (authToken /\ push.issued /\ Quiet /\ stale \cap {"failed", "pulled"} = {})
    => serverCart = cart

Mutations == {"add", "addNew", "update", "remove", "clear"}

\* C18: every accepted cart mutation (add, update, remove, clear) is in the
\* in-memory cart and in the persisted copy before its sync request is sent,
\* so the request carries it; the call succeeds and the mutation stays when
\* the sync request fails or is dropped.
C18_MutationBeforeSync ==
    [][ /\ (IsCall /\ lastOp'.kind \in Mutations /\ cart' # cart)
            => /\ lastOp'.res = "ok"
               /\ lsCart' = cart'
               /\ (~syncInProgress /\ syncInProgress') => push'.body = cart'
               /\ syncInProgress => (syncInProgress' /\ push'.body = push.body)
        /\ (syncInProgress /\ ~syncInProgress')
            => (cart' = cart /\ lsCart' = lsCart /\ lastOp' = lastOp) ]_vars

\* a removal made during a push that then failed for good
C18_Witness ==
    /\ lastOp.kind = "remove" /\ lastOp.res = "ok"
    /\ "failed" \in stale /\ "dropped" \in stale
    /\ ~syncInProgress /\ cart = <<>> /\ lsCart = <<>> /\ Len(push.body) = 1

\* C37: the sync guard is always released: syncInProgress is true only while
\* the post of a push has not settled, the step in which that post settles
\* (success or failure) resets it, and a guard that is set is reset later.
C37_SyncGuardReleased ==
    /\ [](syncInProgress <=> push.open)
    /\ [][(push.open /\ ~push'.open) => ~syncInProgress']_vars
    /\ (syncInProgress ~> ~syncInProgress)

\* a push failed for good, a later mutation started a new push, which succeeded
C37_Witness ==
    /\ ~syncInProgress /\ ~push.open /\ push.issued
    /\ "failed" \in stale /\ serverCart = cart /\ Len(cart) > 0 /\ lastOp.kind = "update"

\* --------------------------------------------------- checkout properties

\* C12: an order submission with an empty cart never sends a request to the
\* order-creation endpoint, in every reachable state of cart and checkout.
C12_NoOrderForEmptyCart ==
    (order.phase = "posted" /\ order.known) => Len(order.items) > 0

\* C13: an order submission whose cart holds an item that fails the
\* authoritative stock check (out of stock, or quantity above the available
\* count) halts before the order request is posted and returns an issue that
\* names that item.
C13_StockIssueHaltsOrder ==
    \A i \in 1..Len(order.items) :
        (order.phase # "none" /\ available[order.items[i].productId] < order.items[i].quantity)
        => /\ order.phase = "rejected"
           /\ \E e \in order.errors : e.pid = order.items[i].productId

\* C24: when the backend answers the order request with success, the local
\* cart is empty in memory and in its persisted copy, and the checkout session
\* is back at its defaults with its stored entry removed.
C24_SuccessClearsCartAndSession ==
    [][(order.by = "service" /\ order.phase = "posted" /\ order'.phase = "placed")
       => /\ cart' = <<>> /\ lsCart' = <<>>
          /\ checkoutData' = DefaultCheckoutData
          /\ ~ssCheckout'.present]_vars

\* an order of a non-empty cart was placed out of a session that carried a coupon
C24_Witness ==
    /\ order.by = "service" /\ order.phase = "placed" /\ Len(order.items) > 0
    /\ coOp = Returned("createOrder")
    /\ cart = <<>> /\ ~ssCheckout.present

\* C25: when the order request is rejected or fails, the error is thrown to
\* the caller and the cart, its persisted copy and the checkout session with
\* its stored entry are what they were, so the same order can be submitted again.
C25_FailureKeepsCartAndSession ==
    [][(order.by = "service" /\ order.phase = "posted" /\ order'.phase = "failed")
       => /\ coOp'.kind = "createOrder" /\ coOp'.res = "thrown"
          /\ UNCHANGED <<cart, lsCart, checkoutData, ssCheckout>>]_vars

\* a failed order of a session with shipping info, methods, coupon and terms,
\* which validateCheckout still accepts
C25_Witness ==
    /\ order.by = "service" /\ order.phase = "failed"
    /\ coOp = Thrown("createOrder", {"Failed to create order"})
    /\ checkoutData = FilledCheckoutData /\ ssCheckout = SaveCheckoutData(FilledCheckoutData)
    /\ cart = order.items /\ ValidateCheckout = {}

\* C36: in every reachable state the request layer's in-memory token
\* (APIService.token) agrees with the persisted auth token (localStorage
\* authToken): both absent or both present, across login, registration, logout
\* and 401 responses.
C36_TokenAgreesWithStorage ==
    apiToken = authToken

\* C38: the estimated total of the checkout is never negative: the stored
\* coupon discount never exceeds the current cart subtotal, also after items
\* are removed once a coupon has been applied.
C38_TotalNeverNegative ==
    /\ checkoutData.discount <= GetCartSubtotal(cart)
    /\ (coOp.kind = "calculateTotals" /\ coOp.res = "ok") => coOp.totals.total >= 0

\* C39: if the guest-cart merge request fails, mergeCart does not throw: the
\* login or registration handler retries or completes as successful, never as
\* failed, and the guest session id stays in storage; the id is removed only
\* by a successful merge (or a logout).
C39_MergeFailureTolerated ==
    [][ /\ \A h \in Handlers :
              (handlers[h].pc = "mergeWait" /\ sessOp'.kind = "mergeFailed"
                   /\ handlers'[h] # handlers[h])
              => /\ handlers'[h].pc \in {"mergeBackoff", "done"}
                 /\ handlers'[h].pc = "done" <=> ~RetriesAfter(handlers[h].i, "retryable")
                                                  \/ handlers'[h].fails = handlers[h].fails
                 /\ sessionId' = sessionId
        /\ (sessionId # NoSession /\ sessionId' = NoSession)
              => sessOp'.kind \in {"mergeOk", "logout"} ]_vars

\* a login whose merge request failed with a server error on every attempt
\* has completed, and the guest session id is still stored
C39_Witness ==
    /\ sessOp.kind = "mergeFailed" /\ sessionId # NoSession
    /\ handlers["h1"].pc = "done" /\ handlers["h1"].merges = RetryAttempts
    /\ handlers["h1"].fails = RetryAttempts

\* C40: after MaxLoginAttempts logins for the identifier were rejected by the
\* backend within the lockout window, by an error status or by a non-success
\* body, the next AuthService.login is refused locally, without contacting the
\* backend; a successful login resets the counter.
C40_LockoutAfterFailures ==
    [][ /\ (/\ authOp.res # "waiting" /\ authOp'.res \in {"waiting", "refused"}
            /\ Len(authOp.failedAt) = MaxLoginAttempts
            /\ now - authOp.failedAt[1] < LockoutDuration)
           => authOp'.res = "refused"
        /\ authOp'.res = "ok" /\ authOp.res = "waiting" => rateLimit' = NoData ]_vars

\* C33: createOrder sends the order request only if, at that moment, the cart
\* is non-empty, the stored shipping info passes validation, a shipping and a
\* payment method are set and the terms agreement is true; otherwise it throws
\* and no request is made.
C33_OrderRequestOnlyWhenValid ==
    [][(order'.by = "service" /\ order' # order /\ order'.phase \in {"posted", "rejected"})
       => IF /\ Len(cart) > 0
             /\ ValidateShippingInfo(checkoutData.shippingInfo) = {}
             /\ checkoutData.shippingMethod # "" /\ checkoutData.paymentMethod # ""
             /\ checkoutData.agreeToTerms
          THEN order'.phase = "posted" \/ order'.errors # {}
          ELSE order'.phase = "rejected" /\ coOp'.res = "thrown"]_vars

\* an order request was sent for a filled session, and one was refused
C33_Witness ==
    /\ order.by = "service" /\ order.phase = "posted" /\ Len(order.items) > 0
    /\ checkoutData.agreeToTerms /\ checkoutData.paymentMethod # ""
    /\ coOp.kind = "createOrder" /\ coOp.res = "posted"

\* C29: checkout cannot start with an empty cart (the flow is redirected to
\* the cart view), and an order request is sent only when the session is
\* authenticated or a guest email that passes validation was supplied.
C29_EntryGuard ==
    (order.by = "page" /\ order.phase \in {"posted", "placed", "failed"})
    => /\ order.known => Len(order.items) > 0
       /\ page.user \/ order.guestEmail = "valid"

\* the handoffs armed or made on the page
Handoffs ==
    { page.pending[k] : k \in 1..Len(page.pending) } \cup { page.done[k] : k \in 1..Len(page.done) }

\* a handoff is the one its response calls for
HandoffMatches(h) ==
    IF h.of = NoPaymentData
    THEN h.does.kind = "details" /\ h.does.action = "/order-details.html"
    ELSE /\ h.does.kind = "payfast"
         /\ h.does.action = IF <<"sandbox", "true">> \in h.of THEN "https://sandbox.payfast.co.za/eng/process"
                ELSE "https://www.payfast.co.za/eng/process"
         /\ h.does.fields = h.of \ {<<"sandbox", "true">>, <<"sandbox", "false">>}

\* C30: after a successful order response exactly one handoff happens: with
\* payment data a POST form whose action the sandbox flag selects and whose
\* fields are exactly the other key/value pairs, otherwise the navigation to
\* the order confirmation view.
C30_ExactlyOneHandoff ==
    /\ \A h \in Handoffs : HandoffMatches(h)
    /\ Len(page.done) <= 1
    /\ page.phase = "left" => page.pending = <<>>

\* ------------------------------------------- checkout session properties

\* C23: for subtotal S and discount D with 0 <= D <= S, calculateTotals
\* returns VAT = 15% of (S-D), shipping = 0 when (S-D) >= 1500 and the flat
\* rate otherwise, and total = (S-D) + VAT + shipping.
C23_TotalsOnDiscountedSubtotal ==
    (/\ coOp.kind = "calculateTotals"
     /\ 0 <= coOp.totals.discount /\ coOp.totals.discount <= coOp.totals.subtotal)
    => /\ coOp.totals.vat * 100 = (coOp.totals.subtotal - coOp.totals.discount) * 15
       /\ IF coOp.totals.subtotal - coOp.totals.discount >= 1500
          THEN coOp.totals.shipping = 0
          ELSE coOp.totals.shipping \in {StandardCost, ExpressCost}
       /\ coOp.totals.total = (coOp.totals.subtotal - coOp.totals.discount)
                                + coOp.totals.vat + coOp.totals.shipping

\* the step is a call of the named CheckoutService method that threw
ThrewIn(kind) == coOp' # coOp /\ coOp'.kind = kind /\ coOp'.res = "thrown"

\* C26: a coupon the backend rejects leaves the checkout state unchanged
\* (couponCode and discount keep their values, a coupon applied before
\* included) and the caller receives the backend's reason.
C26_RejectedCouponKeepsState ==
    [][/\ (coupon.pc = "posted" /\ coupon'.pc = "idle" /\ coOp'.res = "thrown")
          => /\ coOp'.kind = "applyCoupon" /\ coOp'.errors # {}
             /\ UNCHANGED <<checkoutData, ssCheckout>>
       /\ \A a \in CouponAnswers :
            (a.status \in {200, 400} /\ ~a.success /\ a.body = "message")
            => CartApplyCoupon(a) = BackendText(a.body)]_vars

\* a coupon was refused with the backend's reason while an earlier one is applied
C26_Witness ==
    /\ coOp = Thrown("applyCoupon", {BackendText("message")})
    /\ checkoutData.couponCode = "SAVE" /\ checkoutData.discount = 100
    /\ ssCheckout = SaveCheckoutData(checkoutData)

\* C27: shipping info that fails validation (a missing field, the name's
\* length, the phone or postal-code pattern, an empty address) is reported
\* with its errors and leaves the stored shipping info and the checkout step
\* unchanged; no request is made.
C27_InvalidShippingInfoKeepsState ==
    [][/\ ThrewIn("saveShippingInfo")
          => /\ coOp'.errors # {}
             /\ UNCHANGED <<checkoutData, ssCheckout, order, coupon>>
       /\ \A i \in ShippingInfos :
            i # GoodShippingInfo => ValidateShippingInfo(i) # {}]_vars

\* a form with a one-letter name was refused at step 2 with good info stored
C27_Witness ==
    /\ coOp = Thrown("saveShippingInfo", {"Full name must be at least 2 characters"})
    /\ checkoutData.shippingInfo = GoodShippingInfo /\ checkoutData.step = 2
    /\ ssCheckout = SaveCheckoutData(checkoutData)

\* C28: a shipping or payment method outside the enumerated set is refused
\* and the stored method stays; after any sequence of operations the stored
\* shipping method and any non-empty payment method are in their sets.
C28_MethodsStayEnumerated ==
    /\ [](/\ checkoutData.shippingMethod \in ShippingMethods
          /\ checkoutData.paymentMethod \in PaymentMethods \cup {""}
          /\ ssCheckout.data.shippingMethod \in ShippingMethods
          /\ ssCheckout.data.paymentMethod \in PaymentMethods \cup {""})
    /\ [][(ThrewIn("saveShippingMethod") \/ ThrewIn("savePaymentMethod"))
          => UNCHANGED <<checkoutData, ssCheckout>>]_vars

\* "drone" was refused after "express" had been chosen
C28_Witness ==
    /\ coOp = Thrown("saveShippingMethod", {"Invalid shipping method"})
    /\ checkoutData.shippingMethod = "express"
    /\ checkoutData.paymentMethod = "payfast"

====
